---- MODULE Spec2Model ----
(***************************************************************************)
(* The client-side token lifecycle of the blog client library:             *)
(* TokenManager (client/src/token_manager.rs), the claims decoder          *)
(* (client/src/interceptor.rs) and the entry points of the transport       *)
(* shells that write the token store (client/src/http_client.rs,           *)
(* client/src/grpc_client.rs).                                             *)
(*                                                                         *)
(* Every task that uses one TokenManager, by reference or through a clone *)
(* of it, is a caller.  All of them share the store and the refresh lock;  *)
(* the refresh buffer belongs to the instance, so callers on one instance  *)
(* share it and a clone has its own: each caller's entry of                *)
(* token_refresh_buffer_seconds is the buffer of the instance it calls on, *)
(* and the setter names the callers of the instance it changes.  The       *)
(* buffer is an i64 and now + buffer is computed in i64: past i64::MAX the *)
(* addition panics or wraps, as the build's overflow checks decide.        *)
(* An async fn is cut at its await points: the store's RwLock guard        *)
(* is never held across an await, so each store access is one step, taken  *)
(* when the guard is granted; the refresh Mutex guard is held across the   *)
(* re-check, refresh_fn, the wait for the write guard and the store write. *)
(* SpecLocks cuts finer and follows every acquisition and drop of the      *)
(* RwLock's guards.  The receiver of the notifier channel belongs to the   *)
(* manager's owner, who may close or drop it (Spec, SpecLocks); a send     *)
(* after that fails and its error is discarded.  The other scenario        *)
(* specifications keep the receiver open and every instance at the buffer  *)
(* it was constructed with.                                                *)
(*                                                                         *)
(* Two parts of the server are followed as well: the refresh endpoint a    *)
(* refresh_fn talks to (SpecRefresh, one ensure_valid_token call from its  *)
(* first snapshot through the transport to the store write) and the post   *)
(* operations of PostApplication over the posts table (SpecPosts).         *)
(***************************************************************************)
EXTENDS Integers, Sequences, FiniteSets, TLC

VARIABLES
    auth_data,            \* Option<AuthData> behind the RwLock
    refresh_lock,         \* 0 when the Mutex is free, else the caller holding the guard
    token_update_sender,  \* TRUE when a notifier channel is configured
    receiver,             \* the channel's receiver: "open", or "closed" once closed or dropped
    channel,              \* TokenUpdateEvents sent so far (their access tokens)
    now,                  \* Utc::now().timestamp()
    pc,                   \* where each caller stands
    op,                   \* the operation each caller runs or last ran
    snap,                 \* the first snapshot of the caller's ensure_valid_token
    cur,                  \* the store as re-read after the refresh lock was taken
    fn_arg,               \* the refresh token handed to refresh_fn
    fn_result,            \* what refresh_fn returned
    ret,                  \* what the caller's operation returned
    trace,                \* the effects of the caller's current operation, in order
    seen,                 \* what get_auth_data returned to the caller after its operation
    last_write,           \* the AuthData last handed to the store as a unit, and by whom
    refresh_calls,        \* how often refresh_fn has been invoked
    ops,                  \* operations begun
    transport,            \* the shell that owns the manager: "http" or "grpc"
    exchange,             \* the request the caller's shell operation built and its fate
    expires_call,         \* one token's claims and buffer, and the last expires_soon on them
    round_trip,           \* one refresh_fn call followed from the client to the server and back
    store_lock,           \* the RwLock around auth_data: its writer and its readers
    writes,               \* the access tokens assigned to the store, in order
    posts,                \* the server's posts table: uuid -> row
    post_call,            \* the server's create, update and delete calls, in the order begun
    token_refresh_buffer_seconds  \* the buffer of the TokenManager instance each caller calls on

vars == <<auth_data, refresh_lock, token_update_sender, receiver, channel, now, pc, op, snap,
          cur, fn_arg, fn_result, ret, trace, seen, last_write,
          refresh_calls, ops, transport, exchange, expires_call, round_trip,
          store_lock, writes, posts, post_call, token_refresh_buffer_seconds>>

rwlock_vars == <<store_lock, writes>>
post_vars == <<posts, post_call>>

(* ------------------------------ bounds --------------------------------- *)

NumCallers == 3
MaxTime == 1
MaxOps == 2

(* TokenManager::new(300) in both transport shells *)
DefaultBuffer == 300

Callers == 1..NumCallers
Free == 0

(* the server's side: users who send requests, the uuids posts get, and    *)
(* how many requests are followed                                          *)
NumUsers == 2
MaxPosts == 2
MaxRequests == 3

Users == 1..NumUsers
PostIds == 1..MaxPosts

(* RwLock::new(None): no writer, no reader *)
RwFree == [writer |-> Free, readers |-> {}]

(* an empty posts table *)
NoPosts == [id \in PostIds |-> <<>>]

(* the store's RwLock is not followed and the server has seen no request *)
Untouched ==
    /\ store_lock = RwFree
    /\ writes = <<>>
    /\ posts = NoPosts
    /\ post_call = <<>>

(* ------------------------- Option and Result --------------------------- *)

None == <<>>
Some(x) == <<x>>

Ok(v) == [ok |-> TRUE, val |-> <<v>>, err |-> ""]
OkUnit == [ok |-> TRUE, val |-> <<>>, err |-> ""]
Err(e) == [ok |-> FALSE, val |-> <<>>, err |-> e]
NoResult == [ok |-> FALSE, val |-> <<>>, err |-> "pending"]

(* ------------------------------ tokens --------------------------------- *)

(* A token string: the number of dot-separated segments, the payload       *)
(* segment (empty when it does not parse into Claims) and the signature,   *)
(* which tells tokens apart.                                               *)
Claims(exp) == [sub |-> "user_id", user_name |-> "test_user", exp |-> exp]
Jwt(exp, sig) == [segments |-> 3, payload |-> <<Claims(exp)>>, sig |-> sig]
Opaque(sig) == [segments |-> 1, payload |-> <<>>, sig |-> sig]

AuthData(access, refresh) == [access_token |-> access, refresh_token |-> refresh]

(* expiry times around the default buffer: at the boundary at time 0, one   *)
(* second beyond it, and beyond it for as long as the clock runs           *)
StaleExp == DefaultBuffer
SoonExp == DefaultBuffer + 1
FarExp == DefaultBuffer + MaxTime + 10

TokSoon == Jwt(SoonExp, 2)
TokFresh == Jwt(FarExp, 3)
TokOpaque == Opaque(4)

AccessTokens == {TokSoon, TokFresh, TokOpaque}

(* pairs a server response or a caller of set_auth_data supplies *)
Issued == {AuthData(TokSoon, "R2"), AuthData(TokFresh, "R3"), AuthData(TokOpaque, "R4")}

RefreshErrors == {"TransportError", "Unauthorized"}
RefreshResults == {Ok(d) : d \in Issued} \cup {Err(e) : e \in RefreshErrors}
LoginResults == {Ok(AuthData(TokFresh, "R3")), Err("Unauthorized")}

(* --------------------------- claims decoder ---------------------------- *)

decode_token_without_validation(token) ==
    IF token.segments = 3 /\ token.payload # <<>>
    THEN Ok(token.payload[1])
    ELSE Err("InternalError")

(* An i64 is written by its distance from a base: from zero for the values *)
(* the clock and the tokens take, down from i64::MAX and up from i64::MIN  *)
(* for the values at the ends of the range, which a buffer may take.       *)
I64(n) == [base |-> "0", off |-> n]
NearMax(k) == [base |-> "i64::MAX", off |-> k]
NearMin(k) == [base |-> "i64::MIN", off |-> k]

(* now + buffer_seconds in i64, for a clock value t near zero: whether the *)
(* addition overflows, and the sum as two's complement leaves it           *)
add_i64(t, b) ==
    CASE b.base = "0" -> [overflow |-> FALSE, sum |-> I64(t + b.off)]
      [] b.base = "i64::MAX" ->
            IF t <= b.off
            THEN [overflow |-> FALSE, sum |-> NearMax(b.off - t)]
            ELSE [overflow |-> TRUE, sum |-> NearMin(t - b.off - 1)]
      [] b.base = "i64::MIN" ->
            IF b.off + t >= 0
            THEN [overflow |-> FALSE, sum |-> NearMin(b.off + t)]
            ELSE [overflow |-> TRUE, sum |-> NearMax(0 - (b.off + t) - 1)]

(* exp <= limit for an exp near zero *)
le_i64(exp, limit) ==
    CASE limit.base = "0" -> exp <= limit.off
      [] limit.base = "i64::MAX" -> TRUE
      [] limit.base = "i64::MIN" -> FALSE

(* the profile's overflow-checks: on, an overflowing addition panics; off, *)
(* it wraps                                                                *)
OverflowChecks == BOOLEAN

(* faulty variant of expires_soon: the boundary is left out *)
expires_soon_strict(claims, buffer_seconds, t, overflow_checks) ==
    LET s == add_i64(t, buffer_seconds)
    IN  IF s.overflow /\ overflow_checks
        THEN Err("attempt to add with overflow")
        ELSE Ok(le_i64(claims.exp, s.sum) /\ s.sum # I64(claims.exp))

(* self.exp <= now + buffer_seconds, t being Utc::now().timestamp(): the   *)
(* answer, or the panic of the addition                                    *)
expires_soon(claims, buffer_seconds, t, overflow_checks) ==
    LET s == add_i64(t, buffer_seconds)
    IN  IF s.overflow /\ overflow_checks
        THEN Err("attempt to add with overflow")
        ELSE Ok(le_i64(claims.exp, s.sum))

(* ------------------------------ token store ---------------------------- *)

(* faulty variants of set_value: the token is stored with its "Bearer "    *)
(* prefix; the refresh token already stored is kept                        *)
set_value_bearer(old, d) == Some(AuthData(Opaque(d.access_token.sig), d.refresh_token))
set_value_merge(old, d) ==
    IF old = None THEN Some(d) ELSE Some(AuthData(d.access_token, old[1].refresh_token))

(* faulty variant of set_value: a token that does not decode is not        *)
(* stored, the previous pair stays                                         *)
set_value_checked(old, d) ==
    IF d.access_token.segments = 3 /\ d.access_token.payload # <<>> THEN Some(d) ELSE old

(* *data = Some(auth_data) in set_auth_data *)
set_value(old, d) == Some(d)

(* faulty variant of refresh_value: only the access token is replaced *)
refresh_value_merge(old, d) ==
    IF old = None THEN Some(d) ELSE Some(AuthData(d.access_token, old[1].refresh_token))

(* faulty variant of refresh_value: the result is dropped when the store   *)
(* meanwhile holds a token that is not about to expire                     *)
refresh_value_keep_fresh(old, d) ==
    IF /\ old # None
       /\ decode_token_without_validation(old[1].access_token).ok
       /\ old[1].access_token.payload[1].exp > DefaultBuffer + MaxTime
    THEN old
    ELSE Some(d)

(* *auth_data_write = Some(new_auth_data) in ensure_valid_token *)
refresh_value(old, d) == Some(d)

(* let _ = sender.send(TokenUpdateEvent { access_token }) when a sender is *)
(* configured: the event is enqueued while the receiver is open; once the  *)
(* receiver is closed or dropped send returns an error, which is           *)
(* discarded, and nothing is enqueued                                      *)
notify(sender, rx, ch, d) ==
    IF sender /\ rx = "open" THEN Append(ch, d.access_token) ELSE ch

get_auth_data(store) == store
get_access_token(store) == IF store = None THEN None ELSE Some(store[1].access_token)
get_refresh_token(store) == IF store = None THEN None ELSE Some(store[1].refresh_token)

(* the pair HttpClient::set_token / GrpcClient::set_token build *)
set_token_data(token) == AuthData(token, "")

(* faulty variant of login_data: only the access token is kept, as         *)
(* set_token does                                                          *)
login_data_access_only(response) == AuthData(response.access_token, "")

(* the AuthData login builds from the token response *)
login_data(response) == AuthData(response.access_token, response.refresh_token)

(* --------------------------- ensure_valid_token ------------------------ *)

(* faulty variants of first_check: no fast path for a fresh token; an      *)
(* unset store goes for the lock; an undecodable token is treated as an    *)
(* expired one                                                             *)
first_check_no_fast_path(snapshot, buffer_seconds, t, overflow_checks) ==
    IF snapshot = None
    THEN [next |-> "return", ret |-> OkUnit]
    ELSE LET d == decode_token_without_validation(snapshot[1].access_token)
         IN  IF ~d.ok
             THEN [next |-> "return", ret |-> Err(d.err)]
             ELSE [next |-> "lock", ret |-> NoResult]

first_check_unset_locks(snapshot, buffer_seconds, t, overflow_checks) ==
    IF snapshot = None
    THEN [next |-> "lock", ret |-> NoResult]
    ELSE LET d == decode_token_without_validation(snapshot[1].access_token)
         IN  IF ~d.ok
             THEN [next |-> "return", ret |-> Err(d.err)]
             ELSE LET soon == expires_soon(d.val[1], buffer_seconds, t, overflow_checks)
                  IN  IF ~soon.ok
                      THEN [next |-> "panic", ret |-> NoResult]
                      ELSE IF soon.val[1]
                           THEN [next |-> "lock", ret |-> NoResult]
                           ELSE [next |-> "return", ret |-> OkUnit]

first_check_undecodable_refreshes(snapshot, buffer_seconds, t, overflow_checks) ==
    IF snapshot = None
    THEN [next |-> "return", ret |-> OkUnit]
    ELSE LET d == decode_token_without_validation(snapshot[1].access_token)
         IN  IF ~d.ok
             THEN [next |-> "lock", ret |-> NoResult]
             ELSE LET soon == expires_soon(d.val[1], buffer_seconds, t, overflow_checks)
                  IN  IF ~soon.ok
                      THEN [next |-> "panic", ret |-> NoResult]
                      ELSE IF soon.val[1]
                           THEN [next |-> "lock", ret |-> NoResult]
                           ELSE [next |-> "return", ret |-> OkUnit]

(* The decision taken on the first snapshot, before the refresh lock, with *)
(* the buffer of the instance the call is made on.                         *)
first_check(snapshot, buffer_seconds, t, overflow_checks) ==
    IF snapshot = None
    THEN [next |-> "return", ret |-> OkUnit]
    ELSE LET d == decode_token_without_validation(snapshot[1].access_token)
         IN  IF ~d.ok
             THEN [next |-> "return", ret |-> Err(d.err)]
             ELSE LET soon == expires_soon(d.val[1], buffer_seconds, t, overflow_checks)
                  IN  IF ~soon.ok
                      THEN [next |-> "panic", ret |-> NoResult]
                      ELSE IF soon.val[1]
                           THEN [next |-> "lock", ret |-> NoResult]
                           ELSE [next |-> "return", ret |-> OkUnit]

(* faulty variant of re_check: the token is not looked at again under the  *)
(* lock                                                                    *)
re_check_always_refresh(current, buffer_seconds, t, overflow_checks) == IF current = None THEN "return" ELSE "refresh"

(* faulty variant of re_check: a token that does not decode under the lock *)
(* ends the call without a refresh                                         *)
re_check_undecodable_returns(current, buffer_seconds, t, overflow_checks) ==
    IF current = None
    THEN "return"
    ELSE LET d == decode_token_without_validation(current[1].access_token)
         IN  IF ~d.ok
             THEN "return"
             ELSE LET soon == expires_soon(d.val[1], buffer_seconds, t, overflow_checks)
                  IN  IF ~soon.ok
                      THEN "panic"
                      ELSE IF soon.val[1] THEN "refresh" ELSE "return"

(* The decision taken on the store as re-read under the refresh lock.      *)
re_check(current, buffer_seconds, t, overflow_checks) ==
    IF current = None
    THEN "return"
    ELSE LET d == decode_token_without_validation(current[1].access_token)
         IN  IF ~d.ok
             THEN "refresh"
             ELSE LET soon == expires_soon(d.val[1], buffer_seconds, t, overflow_checks)
                  IN  IF ~soon.ok
                      THEN "panic"
                      ELSE IF soon.val[1] THEN "refresh" ELSE "return"

(* faulty variant of re_read: the pre-lock snapshot is used again *)
re_read_snapshot(store, snapshot) == snapshot

(* self.auth_data.read().await.clone() under the refresh lock: store is    *)
(* the RwLock's content, snapshot the first read                           *)
re_read(store, snapshot) == store

(* faulty variant of refresh_arg: the refresh token of the pre-lock        *)
(* snapshot                                                                *)
refresh_arg_from_snapshot(snapshot, current) ==
    IF snapshot = None THEN current.refresh_token ELSE snapshot[1].refresh_token

(* refresh_fn(current_data.refresh_token): snapshot is the first read,     *)
(* current the AuthData re-read under the lock                             *)
refresh_arg(snapshot, current) == current.refresh_token

(* faulty variant of refresh_outcome: the error of refresh_fn is swallowed *)
refresh_outcome_swallow(r) ==
    IF r.ok
    THEN [write |-> TRUE, data |-> r.val, ret |-> OkUnit]
    ELSE [write |-> FALSE, data |-> <<>>, ret |-> OkUnit]

(* faulty variant of refresh_outcome: a returned pair whose access token   *)
(* does not decode is refused                                              *)
refresh_outcome_validated(r) ==
    IF r.ok
    THEN IF decode_token_without_validation(r.val[1].access_token).ok
         THEN [write |-> TRUE, data |-> r.val, ret |-> OkUnit]
         ELSE [write |-> FALSE, data |-> <<>>, ret |-> Err("InternalError")]
    ELSE [write |-> FALSE, data |-> <<>>, ret |-> Err(r.err)]

(* let new_auth_data = refresh_fn(..).await?; and what follows it *)
refresh_outcome(r) ==
    IF r.ok
    THEN [write |-> TRUE, data |-> r.val, ret |-> OkUnit]
    ELSE [write |-> FALSE, data |-> <<>>, ret |-> Err(r.err)]

(* faulty variant of after_refresh: a failed refresh is tried again *)
after_refresh_retry(r) == IF r.ok THEN "done" ELSE "locked"

(* where the call stands once refresh_fn has returned r: the ? returns an  *)
(* error, Ok(()) ends the function; there is no loop                       *)
after_refresh(r) == "done"

(* faulty variant of lock_guard: let _ = ...lock().await drops the guard   *)
(* at once                                                                 *)
lock_guard_dropped(c) == Free

(* let _guard = self.refresh_lock.lock().await: the guard lives to the end *)
(* of the block                                                            *)
lock_guard(c) == c

NoWrite == [by |-> "none", who |-> 0, data |-> <<>>]

(* faulty variant of drop_future: dropping a waiter tears down every call  *)
(* that is inside ensure_valid_token, the one running refresh_fn included  *)
drop_future_shared(p, c) ==
    [x \in DOMAIN p |-> IF p[x] \in {"wait", "locked", "refreshing", "write"} THEN "cancelled" ELSE p[x]]

(* the future of caller c is dropped at its await on the lock: the rest of *)
(* its ensure_valid_token never runs; every other call stands where it was *)
drop_future(p, c) == [p EXCEPT ![c] = "cancelled"]

(* faulty variant of release: the guard is leaked *)
release_leaked(lock, c) == lock

(* the guard goes out of scope: the Mutex is free again *)
release(lock, c) == IF lock = c THEN Free ELSE lock

(* ------------------------------- actions ------------------------------- *)

(* callers are numbered in the order of their first operation *)
NotCalling(c) == pc[c] = "idle" /\ (IF c = 1 THEN TRUE ELSE op[c - 1] # "none")

Sent == IF token_update_sender THEN <<"send">> ELSE <<>>

(* a caller begins operation o: the history of its previous one is dropped *)
Begin(c, o, p, r, t) ==
    /\ pc' = [pc EXCEPT ![c] = p]
    /\ op' = [op EXCEPT ![c] = o]
    /\ ret' = [ret EXCEPT ![c] = r]
    /\ trace' = [trace EXCEPT ![c] = t]
    /\ snap' = [snap EXCEPT ![c] = <<>>]
    /\ cur' = [cur EXCEPT ![c] = <<>>]
    /\ fn_arg' = [fn_arg EXCEPT ![c] = <<>>]
    /\ fn_result' = [fn_result EXCEPT ![c] = NoResult]
    /\ seen' = [seen EXCEPT ![c] = <<>>]
    /\ exchange' = [exchange EXCEPT ![c] = <<>>]
    /\ ops' = ops + 1

(* the store replaced by `value`, the unit d logged, the event sent *)
Store(c, by, value, d) ==
    /\ auth_data' = value
    /\ channel' = notify(token_update_sender, receiver, channel, d)
    /\ last_write' = [by |-> by, who |-> c, data |-> <<d>>]

SetAuthData(c, d) ==
    /\ NotCalling(c)
    /\ ops < MaxOps
    /\ Store(c, "set_auth_data", set_value(auth_data, d), d)
    /\ Begin(c, "set_auth_data", "done", OkUnit, <<"write">> \o Sent)
    /\ UNCHANGED <<refresh_lock, token_update_sender, receiver, transport,
                   token_refresh_buffer_seconds, rwlock_vars, post_vars, expires_call, round_trip,
                   now, refresh_calls>>

(* login: the request is answered by r; a successful answer is stored *)
Login(c, r) ==
    /\ NotCalling(c)
    /\ ops < MaxOps
    /\ IF r.ok
       THEN /\ Store(c, "login", set_value(auth_data, login_data(r.val[1])), r.val[1])
            /\ Begin(c, "login", "done", OkUnit, <<"write">> \o Sent)
       ELSE /\ Begin(c, "login", "done", Err(r.err), <<>>)
            /\ UNCHANGED <<auth_data, channel, last_write>>
    /\ UNCHANGED <<refresh_lock, token_update_sender, receiver, transport,
                   token_refresh_buffer_seconds, rwlock_vars, post_vars, expires_call, round_trip,
                   now, refresh_calls>>

(* setup_token: set_token(token), then ensure_valid_token *)
SetupToken(c, token) ==
    /\ NotCalling(c)
    /\ ops < MaxOps
    /\ Store(c, "setup_token", set_value(auth_data, set_token_data(token)),
             set_token_data(token))
    /\ Begin(c, "setup_token", "start", NoResult, <<"set_token">>)
    /\ UNCHANGED <<refresh_lock, token_update_sender, receiver, transport,
                   token_refresh_buffer_seconds, rwlock_vars, post_vars, expires_call, round_trip,
                   now, refresh_calls>>

EnsureValidToken(c) ==
    /\ NotCalling(c)
    /\ ops < MaxOps
    /\ Begin(c, "ensure_valid_token", "start", NoResult, <<>>)
    /\ UNCHANGED <<auth_data, refresh_lock, token_update_sender, receiver, transport,
                   token_refresh_buffer_seconds, rwlock_vars, post_vars, expires_call,
                   round_trip, channel, now, last_write, refresh_calls>>

(* self.auth_data.read().await.clone() and the check that follows; a panic *)
(* of expires_soon unwinds the call                                        *)
FirstSnapshot(c) ==
    /\ pc[c] = "start"
    /\ \E overflow_checks \in OverflowChecks :
          LET o == first_check(auth_data, token_refresh_buffer_seconds[c], now,
                               overflow_checks)
          IN  /\ snap' = [snap EXCEPT ![c] = <<auth_data>>]
              /\ CASE o.next = "lock" ->
                        /\ pc' = [pc EXCEPT ![c] = "wait"]
                        /\ trace' = [trace EXCEPT ![c] = Append(@, "lock_wait")]
                        /\ ret' = ret
                   [] o.next = "panic" ->
                        /\ pc' = [pc EXCEPT ![c] = "panicked"]
                        /\ trace' = [trace EXCEPT ![c] = Append(@, "panic")]
                        /\ ret' = ret
                   [] OTHER ->
                        /\ pc' = [pc EXCEPT ![c] = "done"]
                        /\ ret' = [ret EXCEPT ![c] = o.ret]
                        /\ trace' = trace
    /\ UNCHANGED <<auth_data, refresh_lock, token_update_sender, receiver, transport,
                   token_refresh_buffer_seconds, rwlock_vars, post_vars, exchange,
                   expires_call, round_trip, channel, now, op, cur, fn_arg, fn_result,
                   seen, last_write, refresh_calls, ops>>

(* self.refresh_lock.lock().await completes *)
AcquireLock(c) ==
    /\ pc[c] = "wait"
    /\ refresh_lock = Free
    /\ refresh_lock' = lock_guard(c)
    /\ pc' = [pc EXCEPT ![c] = "locked"]
    /\ trace' = [trace EXCEPT ![c] = Append(@, "lock")]
    /\ UNCHANGED <<auth_data, token_update_sender, receiver, transport,
                   token_refresh_buffer_seconds, rwlock_vars, post_vars, exchange, expires_call,
                   round_trip, channel, now, op, snap, cur, fn_arg, fn_result, ret, seen,
                   last_write, refresh_calls, ops>>

(* the re-read under the lock; refresh_fn is invoked unless it shows a     *)
(* token that is no longer expiring soon; a panic of expires_soon unwinds  *)
(* the call and drops the guard                                            *)
ReCheck(c) ==
    /\ pc[c] = "locked"
    /\ \E overflow_checks \in OverflowChecks :
          LET current == re_read(auth_data, snap[c][1])
              o == re_check(current, token_refresh_buffer_seconds[c], now, overflow_checks)
          IN  /\ cur' = [cur EXCEPT ![c] = <<current>>]
              /\ CASE o = "refresh" ->
                        /\ pc' = [pc EXCEPT ![c] = "refreshing"]
                        /\ fn_arg' = [fn_arg EXCEPT ![c] =
                                         <<refresh_arg(snap[c][1], current[1])>>]
                        /\ trace' = [trace EXCEPT ![c] = Append(@, "refresh_fn")]
                        /\ refresh_calls' = refresh_calls + 1
                        /\ UNCHANGED <<refresh_lock, ret>>
                   [] o = "panic" ->
                        /\ pc' = [pc EXCEPT ![c] = "panicked"]
                        /\ refresh_lock' = release(refresh_lock, c)
                        /\ trace' = [trace EXCEPT ![c] = @ \o <<"panic", "unlock">>]
                        /\ UNCHANGED <<fn_arg, refresh_calls, ret>>
                   [] OTHER ->
                        /\ pc' = [pc EXCEPT ![c] = "done"]
                        /\ ret' = [ret EXCEPT ![c] = OkUnit]
                        /\ refresh_lock' = release(refresh_lock, c)
                        /\ trace' = [trace EXCEPT ![c] = Append(@, "unlock")]
                        /\ UNCHANGED <<fn_arg, refresh_calls>>
    /\ UNCHANGED <<auth_data, token_update_sender, receiver, transport,
                   token_refresh_buffer_seconds, rwlock_vars, post_vars, exchange,
                   expires_call, round_trip, channel, now, op, snap, fn_result, seen,
                   last_write, ops>>

(* refresh_fn returns r: the ? returns an error and drops the guard; a pair *)
(* goes on to self.auth_data.write().await, the refresh guard still held   *)
fn_returned(c, r) ==
    /\ pc[c] = "refreshing"
    /\ fn_result' = [fn_result EXCEPT ![c] = r]
    /\ LET o == refresh_outcome(r)
       IN  IF o.write
           THEN /\ pc' = [pc EXCEPT ![c] = "write"]
                /\ UNCHANGED <<ret, trace, refresh_lock>>
           ELSE /\ pc' = [pc EXCEPT ![c] = after_refresh(r)]
                /\ ret' = [ret EXCEPT ![c] = o.ret]
                /\ trace' = [trace EXCEPT ![c] = Append(@, "unlock")]
                /\ refresh_lock' = release(refresh_lock, c)

(* refresh_fn is a closure the caller supplies: it returns any r *)
RefreshReturn(c, r) ==
    /\ fn_returned(c, r)
    /\ UNCHANGED <<auth_data, channel, last_write, token_update_sender, receiver, transport,
                   token_refresh_buffer_seconds, rwlock_vars, post_vars,
                   exchange, expires_call, round_trip, now, op, snap, cur, fn_arg, seen,
                   refresh_calls, ops>>

(* write().await completes: the pair refresh_fn returned replaces the      *)
(* store and is announced, Ok(()) is returned and the guard dropped        *)
StoreRefreshed(c) ==
    /\ pc[c] = "write"
    /\ LET o == refresh_outcome(fn_result[c])
       IN  /\ Store(c, "refresh", refresh_value(auth_data, o.data[1]), o.data[1])
           /\ ret' = [ret EXCEPT ![c] = o.ret]
    /\ trace' = [trace EXCEPT ![c] = @ \o <<"write">> \o Sent \o <<"unlock">>]
    /\ pc' = [pc EXCEPT ![c] = after_refresh(fn_result[c])]
    /\ refresh_lock' = release(refresh_lock, c)
    /\ UNCHANGED <<token_update_sender, receiver, transport,
                   token_refresh_buffer_seconds, rwlock_vars, post_vars, exchange,
                   expires_call, round_trip, now, op, snap, cur, fn_arg, fn_result, seen,
                   refresh_calls, ops>>

(* the buffers a caller sets: none, and i64::MAX, which reaches beyond the *)
(* expiry of every token and leaves i64 once the clock is added            *)
BufferSeconds == {I64(0), NearMax(0)}

(* who calls on the instance of caller c: c alone, on a clone of its own,  *)
(* or every caller, on one manager used by reference                       *)
Instances(c) == {{c}, Callers}

(* set_token_refresh_buffer(&mut self, seconds) by caller c on the         *)
(* instance that the callers in users call on: c alone when it holds a     *)
(* clone, every caller when all use one manager by reference, as the       *)
(* tasks of an HttpClient or a GrpcClient do.  The instance is borrowed    *)
(* exclusively, so none of its users has a call in flight, and the next    *)
(* check of each of them uses the new buffer; every other instance keeps   *)
(* the buffer it has                                                       *)
SetTokenRefreshBuffer(c, users, seconds) ==
    /\ c \in users
    /\ NotCalling(c)
    /\ \A u \in users : pc[u] \notin {"start", "wait", "locked", "refreshing", "write"}
    /\ ops < MaxOps
    /\ token_refresh_buffer_seconds' =
          [u \in Callers |-> IF u \in users THEN seconds
                                            ELSE token_refresh_buffer_seconds[u]]
    /\ Begin(c, "set_token_refresh_buffer", "idle", NoResult, <<>>)
    /\ UNCHANGED <<auth_data, refresh_lock, token_update_sender, receiver, transport,
                   rwlock_vars,
                   post_vars, expires_call, round_trip, channel, now, last_write,
                   refresh_calls>>

(* the caller's operation has returned: it reads the store, as the         *)
(* transport shells do to build the bearer credential, and is then free    *)
(* for its next operation                                                  *)
GetAuthData(c) ==
    /\ pc[c] = "done"
    /\ seen' = [seen EXCEPT ![c] = <<get_auth_data(auth_data)>>]
    /\ pc' = [pc EXCEPT ![c] = "idle"]
    /\ snap' = [snap EXCEPT ![c] = <<>>]
    /\ cur' = [cur EXCEPT ![c] = <<>>]
    /\ fn_arg' = [fn_arg EXCEPT ![c] = <<>>]
    /\ fn_result' = [fn_result EXCEPT ![c] = NoResult]
    /\ ret' = [ret EXCEPT ![c] = NoResult]
    /\ trace' = [trace EXCEPT ![c] = <<>>]
    /\ UNCHANGED <<auth_data, refresh_lock, token_update_sender, receiver, transport,
                   token_refresh_buffer_seconds, rwlock_vars, post_vars, exchange,
                   expires_call, round_trip, channel, now, op, last_write, refresh_calls,
                   ops>>

(* the wall clock advances *)
(* the owner of the UnboundedReceiver closes or drops it, at any moment of *)
(* the callers' operations: the events enqueued so far stay, later sends   *)
(* fail.  The close counts as one of the operations begun, of which there  *)
(* are at most budget                                                      *)
CloseReceiver(budget) ==
    /\ token_update_sender
    /\ receiver = "open"
    /\ ops < budget
    /\ receiver' = "closed"
    /\ ops' = ops + 1
    /\ UNCHANGED <<auth_data, refresh_lock, token_update_sender, transport,
                   token_refresh_buffer_seconds, rwlock_vars, post_vars, exchange,
                   expires_call, round_trip, channel, now, pc, op, snap, cur, fn_arg,
                   fn_result, ret, trace, seen, last_write, refresh_calls>>

Tick ==
    /\ now < MaxTime
    /\ now' = now + 1
    /\ UNCHANGED <<auth_data, refresh_lock, token_update_sender, receiver, transport,
                   token_refresh_buffer_seconds, rwlock_vars, post_vars, exchange,
                   expires_call, round_trip, channel, pc, op, snap, cur, fn_arg, fn_result,
                   ret, trace, seen, last_write, refresh_calls, ops>>

(* ---------------------------- specifications --------------------------- *)

(* TokenManager::new / new_with_notifier *)
Init ==
    /\ auth_data = None
    /\ refresh_lock = Free
    /\ token_update_sender \in BOOLEAN
    /\ receiver = "open"
    /\ channel = <<>>
    /\ now = 0
    /\ pc = [c \in Callers |-> "idle"]
    /\ op = [c \in Callers |-> "none"]
    /\ snap = [c \in Callers |-> <<>>]
    /\ cur = [c \in Callers |-> <<>>]
    /\ fn_arg = [c \in Callers |-> <<>>]
    /\ fn_result = [c \in Callers |-> NoResult]
    /\ ret = [c \in Callers |-> NoResult]
    /\ trace = [c \in Callers |-> <<>>]
    /\ seen = [c \in Callers |-> <<>>]
    /\ last_write = NoWrite
    /\ refresh_calls = 0
    /\ ops = 0
    /\ transport = "http"
    /\ token_refresh_buffer_seconds = [c \in Callers |-> I64(DefaultBuffer)]
    /\ exchange = [c \in Callers |-> <<>>]
    /\ expires_call = <<>>
    /\ round_trip = <<>>
    /\ Untouched

Next ==
    \/ \E c \in Callers, d \in Issued : SetAuthData(c, d)
    \/ \E c \in Callers, r \in LoginResults : Login(c, r)
    \/ \E c \in Callers, t \in AccessTokens : SetupToken(c, t)
    \/ \E c \in Callers : EnsureValidToken(c)
    \/ \E c \in Callers :
          \E users \in Instances(c), b \in BufferSeconds : SetTokenRefreshBuffer(c, users, b)
    \/ \E c \in Callers : FirstSnapshot(c)
    \/ \E c \in Callers : AcquireLock(c)
    \/ \E c \in Callers : ReCheck(c)
    \/ \E c \in Callers, r \in RefreshResults : RefreshReturn(c, r)
    \/ \E c \in Callers : StoreRefreshed(c)
    \/ \E c \in Callers : GetAuthData(c)
    \/ CloseReceiver(MaxOps)
    \/ Tick

Spec == Init /\ [][Next]_vars

(* N callers race on an expiring token: the store holds a pair whose       *)
(* access token expires exactly at now + buffer, every caller has invoked  *)
(* ensure_valid_token, and refresh_fn answers with a pair that stays fresh *)
TokStale == Jwt(StaleExp, 1)
StalePair == AuthData(TokStale, "R1")
RaceResults == {Ok(AuthData(TokFresh, "R3")), Ok(AuthData(Jwt(FarExp, 5), "R5"))}

InitRace ==
    /\ auth_data = Some(StalePair)
    /\ refresh_lock = Free
    /\ token_update_sender \in BOOLEAN
    /\ receiver = "open"
    /\ channel = notify(token_update_sender, receiver, <<>>, StalePair)
    /\ now = 0
    /\ pc = [c \in Callers |-> "start"]
    /\ op = [c \in Callers |-> "ensure_valid_token"]
    /\ snap = [c \in Callers |-> <<>>]
    /\ cur = [c \in Callers |-> <<>>]
    /\ fn_arg = [c \in Callers |-> <<>>]
    /\ fn_result = [c \in Callers |-> NoResult]
    /\ ret = [c \in Callers |-> NoResult]
    /\ trace = [c \in Callers |-> <<>>]
    /\ seen = [c \in Callers |-> <<>>]
    /\ last_write = [by |-> "set_auth_data", who |-> 1, data |-> <<StalePair>>]
    /\ refresh_calls = 0
    /\ ops = NumCallers + 1
    /\ transport = "http"
    /\ token_refresh_buffer_seconds = [c \in Callers |-> I64(DefaultBuffer)]
    /\ exchange = [c \in Callers |-> <<>>]
    /\ expires_call = <<>>
    /\ round_trip = <<>>
    /\ Untouched

NextRace ==
    \/ \E c \in Callers : FirstSnapshot(c)
    \/ \E c \in Callers : AcquireLock(c)
    \/ \E c \in Callers : ReCheck(c)
    \/ \E c \in Callers, r \in RaceResults : RefreshReturn(c, r)
    \/ \E c \in Callers : StoreRefreshed(c)
    \/ \E c \in Callers : GetAuthData(c)
    \/ Tick

SpecRace == InitRace /\ [][NextRace]_vars

(* every variable of the manager and its callers as the constructor leaves *)
(* it, no notifier configured                                              *)
Constructed ==
    /\ auth_data = None
    /\ refresh_lock = Free
    /\ token_update_sender = FALSE
    /\ receiver = "open"
    /\ channel = <<>>
    /\ pc = [c \in Callers |-> "idle"]
    /\ op = [c \in Callers |-> "none"]
    /\ snap = [c \in Callers |-> <<>>]
    /\ cur = [c \in Callers |-> <<>>]
    /\ fn_arg = [c \in Callers |-> <<>>]
    /\ fn_result = [c \in Callers |-> NoResult]
    /\ ret = [c \in Callers |-> NoResult]
    /\ trace = [c \in Callers |-> <<>>]
    /\ seen = [c \in Callers |-> <<>>]
    /\ last_write = NoWrite
    /\ refresh_calls = 0
    /\ ops = 0
    /\ exchange = [c \in Callers |-> <<>>]

manager_vars == <<auth_data, refresh_lock, token_update_sender, receiver, channel, pc, op, snap,
                  cur, fn_arg, fn_result, ret, trace, seen, last_write,
                  refresh_calls, ops, exchange>>

(* ---------------------- Claims::expires_soon alone --------------------- *)

MaxExp == 3
MaxBuffer == 2

(* one token's claims and one buffer, near zero or at the top of i64,      *)
(* fixed; expires_soon is called on them again and again while the clock   *)
(* advances                                                                *)
ExpiresInputs ==
    {[claims |-> Claims(e), buffer |-> b, at |-> <<>>, soon |-> <<>>] :
        e \in (0 - MaxExp)..MaxExp,
        b \in {I64(n) : n \in (0 - 1)..MaxBuffer} \cup {NearMax(k) : k \in 0..MaxTime}}

(* claims.expires_soon(buffer): the clock is read inside the call *)
ExpiresSoon ==
    /\ expires_call # <<>>
    /\ \E overflow_checks \in OverflowChecks :
          expires_call' = [expires_call EXCEPT
                              !.at = <<now>>,
                              !.soon = <<expires_soon(expires_call.claims, expires_call.buffer,
                                                      now, overflow_checks)>>]
    /\ UNCHANGED <<manager_vars, now, transport,
                   token_refresh_buffer_seconds, rwlock_vars, post_vars, round_trip>>

InitExpires ==
    /\ Constructed
    /\ now = 0
    /\ transport = "http"
    /\ token_refresh_buffer_seconds = [c \in Callers |-> I64(DefaultBuffer)]
    /\ expires_call \in ExpiresInputs
    /\ round_trip = <<>>
    /\ Untouched

NextExpires ==
    \/ ExpiresSoon
    \/ Tick

SpecExpires == InitExpires /\ [][NextExpires]_vars

(* ------------------- cancellation of a waiting caller ------------------ *)

(* the caller's future is dropped while it awaits the refresh lock: it     *)
(* leaves the Mutex's wait queue without ever holding the guard            *)
Cancel(c) ==
    /\ pc[c] = "wait"
    /\ pc' = drop_future(pc, c)
    /\ trace' = [trace EXCEPT ![c] = Append(@, "dropped")]
    /\ UNCHANGED <<auth_data, refresh_lock, token_update_sender, receiver, transport,
                   token_refresh_buffer_seconds, rwlock_vars, post_vars, exchange,
                   expires_call, round_trip, channel, now, op, snap, cur, fn_arg,
                   fn_result, ret, seen, last_write, refresh_calls, ops>>

(* every caller has invoked ensure_valid_token on an expiring pair; any    *)
(* waiter may be cancelled; refresh_fn answers with any result             *)
NextCancel ==
    \/ \E c \in Callers : FirstSnapshot(c)
    \/ \E c \in Callers : AcquireLock(c)
    \/ \E c \in Callers : ReCheck(c)
    \/ \E c \in Callers, r \in RefreshResults : RefreshReturn(c, r)
    \/ \E c \in Callers : StoreRefreshed(c)
    \/ \E c \in Callers : Cancel(c)
    \/ Tick

(* the runtime polls every task that can run, the Mutex hands the guard to *)
(* a waiter once it is free, and refresh_fn returns                        *)
FairCancel ==
    \A c \in Callers :
       /\ WF_vars(AcquireLock(c))
       /\ WF_vars(ReCheck(c))
       /\ WF_vars(\E r \in RefreshResults : RefreshReturn(c, r))
       /\ WF_vars(StoreRefreshed(c))

(* the race on an expiring pair, on a manager built without a notifier *)
InitCancel == InitRace /\ token_update_sender = FALSE

SpecCancel == InitCancel /\ [][NextCancel]_vars /\ FairCancel

(* ------------- the race when refresh_fn does not bring a fresh pair ---- *)

(* every caller has invoked ensure_valid_token on an expiring pair and     *)
(* refresh_fn answers with an error or with any pair, fresh or not         *)
NextRetry ==
    \/ \E c \in Callers : FirstSnapshot(c)
    \/ \E c \in Callers : AcquireLock(c)
    \/ \E c \in Callers : ReCheck(c)
    \/ \E c \in Callers, r \in RefreshResults : RefreshReturn(c, r)
    \/ \E c \in Callers : StoreRefreshed(c)
    \/ Tick

SpecRetry == InitCancel /\ [][NextRetry]_vars

(* -------------------- operations of the transport shells --------------- *)

ResourceOps == {"create_post", "get_post", "update_post", "delete_post", "list_posts"}
Transports == {"http", "grpc"}

(* a decodable token whose signature segment holds a byte that no header   *)
(* value may hold                                                          *)
TokControl == [segments |-> 3, payload |-> <<Claims(FarExp)>>, sig |-> 0]

(* format!("Bearer {}", data.access_token) *)
bearer(token) == [scheme |-> "Bearer", token |-> token]

(* HeaderValue::from_str / MetadataValue::try_from *)
header_value(token) ==
    IF token = TokControl THEN Err("InternalError") ELSE Ok(bearer(token))

(* faulty variant of after_ensure: the result of ensure_valid_token is     *)
(* dropped                                                                 *)
after_ensure_ignored(r) == "send"

(* self.ensure_valid_token().await? at the head of a resource operation *)
after_ensure(r) == IF r.ok THEN "send" ELSE "return"

(* faulty variant of credential_source: the token read before              *)
(* ensure_valid_token is attached                                          *)
credential_source_snapshot(store, snapshot) == snapshot

(* self.token_manager.get_auth_data().await in create_headers and          *)
(* create_request: store is the RwLock's content at that moment, snapshot  *)
(* what ensure_valid_token first read                                      *)
credential_source(store, snapshot) == store

(* faulty variant of create_headers: a request without stored AuthData is  *)
(* refused on the client                                                   *)
create_headers_requires_auth(tr, data) ==
    IF data = None
    THEN Err("Unauthorized")
    ELSE LET h == header_value(data[1].access_token)
         IN  IF h.ok
             THEN Ok(Some(h.val[1]))
             ELSE IF tr = "http" THEN Err(h.err) ELSE Ok(None)

(* create_headers (http) and create_request (grpc): the credential to      *)
(* attach, if any; only create_headers fails on a bad header value         *)
create_headers(tr, data) ==
    IF data = None
    THEN Ok(None)
    ELSE LET h == header_value(data[1].access_token)
         IN  IF h.ok
             THEN Ok(Some(h.val[1]))
             ELSE IF tr = "http" THEN Err(h.err) ELSE Ok(None)

NotSent(e) == [sent |-> FALSE, credential |-> None, error |-> e]
SentWith(credential) == [sent |-> TRUE, credential |-> credential, error |-> NoResult]

(* create_post, get_post, update_post, delete_post, list_posts: each       *)
(* starts with ensure_valid_token                                          *)
ResourceOp(c, k) ==
    /\ NotCalling(c)
    /\ op[c] = "none"
    /\ ops < MaxOps
    /\ Begin(c, k, "start", NoResult, <<>>)
    /\ UNCHANGED <<auth_data, refresh_lock, token_update_sender, receiver, transport,
                   token_refresh_buffer_seconds, rwlock_vars, post_vars, expires_call,
                   round_trip, channel, now, last_write, refresh_calls>>

(* ensure_valid_token has returned to the resource operation: an error is  *)
(* returned as it is; otherwise the store is read, the credential built    *)
(* and the request sent                                                    *)
AfterEnsure(c) ==
    /\ pc[c] = "done"
    /\ op[c] \in ResourceOps
    /\ IF after_ensure(ret[c]) = "return"
       THEN /\ exchange' = [exchange EXCEPT ![c] = <<NotSent(ret[c])>>]
            /\ seen' = seen
       ELSE LET data == get_auth_data(credential_source(auth_data, snap[c][1]))
                h == create_headers(transport, data)
            IN  /\ seen' = [seen EXCEPT ![c] = <<data>>]
                /\ exchange' = [exchange EXCEPT ![c] =
                                   IF h.ok THEN <<SentWith(h.val[1])>>
                                           ELSE <<NotSent(Err(h.err))>>]
    /\ pc' = [pc EXCEPT ![c] = "finished"]
    /\ UNCHANGED <<auth_data, refresh_lock, token_update_sender, receiver, transport,
                   token_refresh_buffer_seconds, rwlock_vars, post_vars, expires_call,
                   round_trip, channel, now, op, snap, cur, fn_arg, fn_result, ret,
                   trace, last_write, refresh_calls, ops>>

RegisterResults == {OkUnit, Err("InvalidRequest")}

(* register: the request is answered by r, which is returned *)
Register(c, r) ==
    /\ NotCalling(c)
    /\ op[c] = "none"
    /\ ops < MaxOps
    /\ Begin(c, "register", "done", r, <<>>)
    /\ UNCHANGED <<auth_data, refresh_lock, token_update_sender, receiver, transport,
                   token_refresh_buffer_seconds, rwlock_vars, post_vars, expires_call,
                   round_trip, channel, now, last_write, refresh_calls>>

(* what the store of a client in use may hold: nothing, an expiring pair,  *)
(* a fresh one, one that does not decode, one that makes no header value   *)
ShellPairs ==
    {StalePair, AuthData(TokFresh, "R3"), AuthData(TokOpaque, "R4"), AuthData(TokControl, "R0")}

InitShell ==
    /\ Constructed
    /\ now = 0
    /\ transport \in Transports
    /\ token_refresh_buffer_seconds = [c \in Callers |-> I64(DefaultBuffer)]
    /\ expires_call = <<>>
    /\ round_trip = <<>>
    /\ Untouched

(* the store is filled by set_auth_data before the callers start *)
Prepare(d) ==
    /\ last_write = NoWrite
    /\ ops = 0
    /\ auth_data' = set_value(auth_data, d)
    /\ channel' = notify(token_update_sender, receiver, channel, d)
    /\ last_write' = [by |-> "set_auth_data", who |-> 0, data |-> <<d>>]
    /\ UNCHANGED <<refresh_lock, token_update_sender, receiver, transport,
                   token_refresh_buffer_seconds, rwlock_vars, post_vars, exchange, expires_call,
                   round_trip, now, pc, op, snap, cur, fn_arg, fn_result, ret, trace,
                   seen, refresh_calls, ops>>

NextShell ==
    \/ \E d \in ShellPairs : Prepare(d)
    \/ \E c \in Callers, k \in ResourceOps : ResourceOp(c, k)
    \/ \E c \in Callers, r \in LoginResults : Login(c, r)
    \/ \E c \in Callers, r \in RegisterResults : Register(c, r)
    \/ \E c \in Callers : FirstSnapshot(c)
    \/ \E c \in Callers : AcquireLock(c)
    \/ \E c \in Callers : ReCheck(c)
    \/ \E c \in Callers, r \in RefreshResults : RefreshReturn(c, r)
    \/ \E c \in Callers : StoreRefreshed(c)
    \/ \E c \in Callers : AfterEnsure(c)

SpecShell == InitShell /\ [][NextShell]_vars

(* --------------- refresh_fn from the client to the server -------------- *)

(* jsonwebtoken's Validation::default(): exp is checked with this leeway *)
Leeway == 60
(* chrono::Duration::days(30) in generate_refresh_token *)
RefreshExpiry == 2592000
(* expires_in of every TokenDto *)
ExpiresIn == 86400
(* JWT_EXPIRATION_SECONDS of the deployment *)
jwt_expiration_seconds == 3600

(* JWT_SECRET and a key that is not it *)
Secret == "JWT_SECRET"
Keys == {Secret, "other"}

(* a token as the server sees it: the key it is signed with and its claims *)
ServerClaims(sub, user_name, exp, iat) ==
    [sub |-> sub, user_name |-> user_name, exp |-> exp, iat |-> iat]
Signed(key, claims) == [key |-> key, claims |-> <<claims>>]
Garbage == [key |-> "none", claims |-> <<>>]

(* refresh tokens a client may present: signed with the secret or not,     *)
(* expiring around the server's clock minus the leeway, or no JWT at all   *)
PresentedTokens ==
    {Signed(k, ServerClaims("user_id", "test_user", e, 0)) : k \in Keys, e \in 0..(MaxTime + 1)}
       \cup {Garbage}

(* faulty variant of verify_token: expiry is not validated *)
verify_token_no_expiry(token, t) ==
    IF token.key = Secret /\ token.claims # <<>> THEN Some(token.claims[1]) ELSE None

(* AuthService::verify_token: jsonwebtoken::decode with the secret and the *)
(* default validation, at server time t                                    *)
verify_token(token, t) ==
    IF token.key # Secret \/ token.claims = <<>>
    THEN None
    ELSE IF token.claims[1].exp < t - Leeway
         THEN None
         ELSE Some(token.claims[1])

generate_token(sub, user_name, t) ==
    Signed(Secret, ServerClaims(sub, user_name, t + jwt_expiration_seconds, t))

generate_refresh_token(sub, user_name, t) ==
    Signed(Secret, ServerClaims(sub, user_name, t + RefreshExpiry, t))

TokenDto(access, refresh) ==
    [access_token |-> access, refresh_token |-> refresh, expires_in |-> ExpiresIn]

(* AuthApplication::refresh_token *)
refresh_token(presented, t) ==
    LET claims == verify_token(presented, t)
    IN  IF claims = None
        THEN Err("TokenValidationError")
        ELSE Ok(TokenDto(generate_token(claims[1].sub, claims[1].user_name, t),
                         generate_refresh_token(claims[1].sub, claims[1].user_name, t)))

(* impl From<DomainError> for ApiError, and ApiError::status_code *)
api_error(domain_error) ==
    CASE domain_error \in {"UserAlreadyExists", "InvalidPassword"} -> "BadRequest"
      [] domain_error \in {"UserNotFound", "PostNotFound"} -> "NotFound"
      [] domain_error \in {"InvalidCredentials", "TokenValidationError"} -> "Unauthorized"
      [] domain_error = "Forbidden" -> "Forbidden"
      [] OTHER -> "InternalServerError"

status_code(e) ==
    CASE e = "BadRequest" -> 400
      [] e = "Unauthorized" -> 401
      [] e = "Forbidden" -> 403
      [] e = "NotFound" -> 404
      [] OTHER -> 500

(* what comes back to the client: an HTTP status and body, or the outcome  *)
(* of the RPC with the in-band status code and the token container         *)
Reply(status, body, rpc, code) == [status |-> status, body |-> body, rpc |-> rpc, code |-> code]
NoReply == Reply(0, <<>>, "none", <<>>)

(* #[post("/api/v1/auth/refresh")] *)
RefreshRoute == <<"api", "v1", "auth", "refresh">>

(* what a POST to a path without a route is answered with: 404, or 401    *)
(* from the bearer middleware around the scope that catches every path     *)
UnroutedStatus == {404, 401}

(* the HTTP server: the refresh handler on its route, no handler elsewhere *)
http_refresh_token(path, presented, t, unrouted) ==
    IF path # RefreshRoute
    THEN Reply(unrouted, <<>>, "none", <<>>)
    ELSE LET r == refresh_token(presented, t)
         IN  IF r.ok
             THEN Reply(200, r.val, "none", <<>>)
             ELSE Reply(status_code(api_error(r.err)), <<>>, "none", <<>>)

(* format!("{}/auth/refresh", base_url): base is the path of base_url *)
refresh_url(base) == base \o <<"auth", "refresh">>

(* #[post("/api/v1/auth/login")] and format!("{}/api/v1/auth/login", base_url) *)
LoginRoute == <<"api", "v1", "auth", "login">>
login_url(base) == base \o <<"api", "v1", "auth", "login">>

(* the path part of the url a client is built with: none, or the prefix    *)
(* under which the server mounts its routes                                *)
BaseUrls == {<<>>, <<"api", "v1">>}

is_success(status) == status >= 200 /\ status < 300

(* HttpClient::refresh_auth_token_internal, from the send on *)
http_refresh_auth_token_internal(network, reply) ==
    IF network = "down"
    THEN Err("TransportError")
    ELSE IF ~is_success(reply.status)
         THEN Err("TransportError")
         ELSE IF reply.body = <<>>
              THEN Err("TransportError")
              ELSE Ok(AuthData(reply.body[1].access_token, reply.body[1].refresh_token))

check_response(response) ==
    IF response = <<>>
    THEN Err("InternalError")
    ELSE CASE response[1] = "Ok" -> OkUnit
           [] response[1] = "Unauthorized" -> Err("Unauthorized")
           [] response[1] = "InvalidRequest" -> Err("InvalidRequest")
           [] OTHER -> Err("InternalError")

(* GrpcClient::refresh_auth_token_internal, from the call on *)
grpc_refresh_auth_token_internal(network, reply) ==
    IF network = "down" \/ reply.rpc # "OK"
    THEN Err("TransportError")
    ELSE IF ~check_response(reply.code).ok
         THEN check_response(reply.code)
         ELSE IF reply.body = <<>>
              THEN Err("InternalError")
              ELSE Ok(AuthData(reply.body[1].access_token, reply.body[1].refresh_token))

refresh_auth_token_internal(tr, network, reply) ==
    IF tr = "http"
    THEN http_refresh_auth_token_internal(network, reply)
    ELSE grpc_refresh_auth_token_internal(network, reply)

(* what a gRPC server may answer to RefreshToken at time t: a tonic Status *)
(* or a response whose status code and token container are set or not     *)
GrpcReplies(presented, t) ==
    LET issued == TokenDto(generate_token("user_id", "test_user", t),
                           generate_refresh_token("user_id", "test_user", t))
    IN  {Reply(0, <<>>, s, <<>>) : s \in {"Unauthenticated", "Unimplemented"}}
           \cup {Reply(0, b, "OK", c) :
                    b \in {<<>>, <<issued>>},
                    c \in {<<>>, <<"Ok">>, <<"Unauthorized">>, <<"InvalidRequest">>,
                           <<"InternalError">>}}

(* the caller whose ensure_valid_token is followed through the transport *)
Refresher == 1

RoundTrip(base, presented) ==
    [base |-> base, presented |-> presented, step |-> "begin", network |-> "none",
     reply |-> NoReply, result |-> NoResult]

(* refresh_fn, called with the refresh token re-read under the lock, sends *)
(* its request and the network carries it                                  *)
SendRefresh ==
    /\ round_trip.step = "begin"
    /\ pc[Refresher] = "refreshing"
    /\ round_trip' = [round_trip EXCEPT !.step = "sent", !.network = "up",
                                        !.presented = fn_arg[Refresher][1]]
    /\ UNCHANGED <<manager_vars, now, transport,
                   token_refresh_buffer_seconds, rwlock_vars, post_vars, expires_call>>

(* the request or its answer is lost: send().await? and                    *)
(* client.refresh_token(request).await? return the transport's error,      *)
(* which the ? of ensure_valid_token returns, dropping the guard           *)
NetworkFails ==
    /\ round_trip.step \in {"begin", "sent"}
    /\ LET r == refresh_auth_token_internal(transport, "down", NoReply)
       IN  /\ fn_returned(Refresher, r)
           /\ round_trip' = [round_trip EXCEPT !.step = "returned", !.network = "down",
                                                !.presented = fn_arg[Refresher][1],
                                                !.result = r]
    /\ UNCHANGED <<auth_data, channel, last_write, token_update_sender, receiver, transport,
                   token_refresh_buffer_seconds, rwlock_vars, post_vars, exchange,
                   expires_call, now, op, snap, cur, fn_arg, seen, refresh_calls, ops>>

(* the HTTP server answers the request *)
ServerRefresh(unrouted) ==
    /\ round_trip.step = "sent"
    /\ transport = "http"
    /\ round_trip' = [round_trip EXCEPT
                         !.step = "replied",
                         !.reply = http_refresh_token(refresh_url(round_trip.base),
                                                      round_trip.presented, now, unrouted)]
    /\ UNCHANGED <<manager_vars, now, transport,
                   token_refresh_buffer_seconds, rwlock_vars, post_vars, expires_call>>

(* the gRPC server answers the call *)
GrpcReply(reply) ==
    /\ round_trip.step = "sent"
    /\ transport = "grpc"
    /\ round_trip' = [round_trip EXCEPT !.step = "replied", !.reply = reply]
    /\ UNCHANGED <<manager_vars, now, transport,
                   token_refresh_buffer_seconds, rwlock_vars, post_vars, expires_call>>

(* refresh_fn maps the answer and returns: an error is returned by         *)
(* ensure_valid_token at once; with a pair the call goes on to             *)
(* auth_data.write().await, the store still holding the old pair and the   *)
(* call not yet returned                                                   *)
ReceiveRefresh ==
    /\ round_trip.step = "replied"
    /\ LET r == refresh_auth_token_internal(transport, "up", round_trip.reply)
       IN  /\ fn_returned(Refresher, r)
           /\ round_trip' = [round_trip EXCEPT !.step = "returned", !.result = r]
    /\ UNCHANGED <<auth_data, channel, last_write, token_update_sender, receiver, transport,
                   token_refresh_buffer_seconds, rwlock_vars, post_vars, exchange,
                   expires_call, now, op, snap, cur, fn_arg, seen, refresh_calls, ops>>

(* the store was set to a pair whose access token expires soon, and the    *)
(* refresher has called ensure_valid_token                                 *)
InitRefresh ==
    /\ \E p \in PresentedTokens :
          /\ auth_data = Some(AuthData(TokStale, p))
          /\ last_write = [by |-> "set_auth_data", who |-> Refresher,
                           data |-> <<AuthData(TokStale, p)>>]
    /\ refresh_lock = Free
    /\ token_update_sender = FALSE
    /\ receiver = "open"
    /\ channel = <<>>
    /\ pc = [c \in Callers |-> IF c = Refresher THEN "start" ELSE "idle"]
    /\ op = [c \in Callers |-> IF c = Refresher THEN "ensure_valid_token" ELSE "none"]
    /\ snap = [c \in Callers |-> <<>>]
    /\ cur = [c \in Callers |-> <<>>]
    /\ fn_arg = [c \in Callers |-> <<>>]
    /\ fn_result = [c \in Callers |-> NoResult]
    /\ ret = [c \in Callers |-> NoResult]
    /\ trace = [c \in Callers |-> <<>>]
    /\ seen = [c \in Callers |-> <<>>]
    /\ refresh_calls = 0
    /\ ops = 2
    /\ exchange = [c \in Callers |-> <<>>]
    /\ now \in Leeway..(Leeway + MaxTime + 1)
    /\ transport \in Transports
    /\ token_refresh_buffer_seconds = [c \in Callers |-> I64(DefaultBuffer)]
    /\ expires_call = <<>>
    /\ round_trip \in {RoundTrip(b, Garbage) : b \in BaseUrls}
    /\ Untouched

NextRefresh ==
    \/ FirstSnapshot(Refresher)
    \/ AcquireLock(Refresher)
    \/ ReCheck(Refresher)
    \/ SendRefresh
    \/ NetworkFails
    \/ \E unrouted \in UnroutedStatus : ServerRefresh(unrouted)
    \/ \E reply \in GrpcReplies(round_trip.presented, now) : GrpcReply(reply)
    \/ ReceiveRefresh
    \/ StoreRefreshed(Refresher)

SpecRefresh == InitRefresh /\ [][NextRefresh]_vars

(* ----------------------- the server's posts ---------------------------- *)

(* the title and the content a user submits: what the user creates a post  *)
(* with and what the user updates one to                                   *)
PostText(field, user, rev) == [field |-> field, by |-> user, rev |-> rev]
CreatePostDto(user) ==
    [title |-> PostText("title", user, "created"),
     content |-> PostText("content", user, "created"), author_id |-> user]
UpdatePostDto(uuid, user) ==
    [uuid |-> uuid, title |-> PostText("title", user, "updated"),
     content |-> PostText("content", user, "updated")]

(* domain::entities::post::Post, its two timestamps left out *)
Post(uuid, title, content, author_id) ==
    [uuid |-> uuid, title |-> title, content |-> content, author_id |-> author_id]

(* PgUserRepository: each function is one SQL statement on the table;      *)
(* fetch_one on no row is sqlx::Error::RowNotFound, a RepositoryError      *)
pg_get_post_by_id(table, post_id) ==
    IF table[post_id] = <<>> THEN Err("RepositoryError") ELSE Ok(table[post_id][1])

pg_create_post(table, post) ==
    IF table[post.uuid] # <<>>
    THEN [table |-> table, result |-> Err("RepositoryError")]
    ELSE [table |-> [table EXCEPT ![post.uuid] = <<post>>], result |-> Ok(post)]

(* UPDATE posts SET title, content, updated_at WHERE id RETURNING the row *)
pg_update_post(table, post) ==
    IF table[post.uuid] = <<>>
    THEN [table |-> table, result |-> Err("RepositoryError")]
    ELSE LET row == [table[post.uuid][1] EXCEPT !.title = post.title,
                                                 !.content = post.content]
         IN  [table |-> [table EXCEPT ![post.uuid] = <<row>>], result |-> Ok(row)]

(* DELETE FROM posts WHERE id, executed: no row is no error *)
pg_delete_post(table, post_id) ==
    [table |-> [table EXCEPT ![post_id] = <<>>], result |-> OkUnit]

(* faulty variant of check_access_to_post: the author is not compared *)
check_access_to_post_any(table, post_id, user_id) == pg_get_post_by_id(table, post_id)

(* PostApplication::check_access_to_post *)
check_access_to_post(table, post_id, user_id) ==
    LET post == pg_get_post_by_id(table, post_id)
    IN  IF ~post.ok
        THEN post
        ELSE IF post.val[1].author_id # user_id
             THEN Err("Forbidden")
             ELSE post

(* a call of PostApplication: who asks, for which post, with which dto;    *)
(* where it stands; the post check_access_to_post handed back; its result  *)
PostCall(kind, user_id, post_id, dto, step, existing, result) ==
    [kind |-> kind, user_id |-> user_id, post_id |-> post_id, dto |-> dto,
     step |-> step, existing |-> existing, result |-> result]

(* Uuid::now_v7(): an id no post ever had *)
Created == {i \in 1..Len(post_call) : post_call[i].kind = "create_post"}
next_uuid == Cardinality(Created) + 1

(* PostApplication::create_post *)
CreatePost(u) ==
    /\ Len(post_call) < MaxRequests
    /\ next_uuid \in PostIds
    /\ LET dto == CreatePostDto(u)
           post == Post(next_uuid, dto.title, dto.content, dto.author_id)
           r == pg_create_post(posts, post)
       IN  /\ posts' = r.table
           /\ post_call' = Append(post_call,
                  PostCall("create_post", u, next_uuid, <<dto>>, "returned", <<>>, r.result))
    /\ UNCHANGED <<manager_vars, now, transport,
                   token_refresh_buffer_seconds, rwlock_vars, expires_call, round_trip>>

(* update_post and delete_post up to the return of check_access_to_post *)
CheckAccess(u, kind, post_id) ==
    /\ Len(post_call) < MaxRequests
    /\ LET a == check_access_to_post(posts, post_id, u)
           dto == IF kind = "update_post" THEN <<UpdatePostDto(post_id, u)>> ELSE <<>>
       IN  post_call' = Append(post_call,
               IF a.ok
               THEN PostCall(kind, u, post_id, dto, "checked", a.val, NoResult)
               ELSE PostCall(kind, u, post_id, dto, "returned", <<>>, a))
    /\ UNCHANGED <<manager_vars, now, transport,
                   token_refresh_buffer_seconds, rwlock_vars, expires_call, round_trip, posts>>

(* update_post from existing_post.title = dto.title on *)
UpdatePost(i) ==
    /\ i \in 1..Len(post_call)
    /\ post_call[i].kind = "update_post"
    /\ post_call[i].step = "checked"
    /\ LET dto == post_call[i].dto[1]
           existing_post == [post_call[i].existing[1] EXCEPT !.title = dto.title,
                                                             !.content = dto.content]
           r == pg_update_post(posts, existing_post)
       IN  /\ posts' = r.table
           /\ post_call' = [post_call EXCEPT ![i].step = "returned", ![i].result = r.result]
    /\ UNCHANGED <<manager_vars, now, transport,
                   token_refresh_buffer_seconds, rwlock_vars, expires_call, round_trip>>

(* delete_post from self.user_repository.delete_post(post_id) on *)
DeletePost(i) ==
    /\ i \in 1..Len(post_call)
    /\ post_call[i].kind = "delete_post"
    /\ post_call[i].step = "checked"
    /\ LET r == pg_delete_post(posts, post_call[i].post_id)
       IN  /\ posts' = r.table
           /\ post_call' = [post_call EXCEPT ![i].step = "returned", ![i].result = r.result]
    /\ UNCHANGED <<manager_vars, now, transport,
                   token_refresh_buffer_seconds, rwlock_vars, expires_call, round_trip>>

InitPosts ==
    /\ Constructed
    /\ now = 0
    /\ transport = "http"
    /\ token_refresh_buffer_seconds = [c \in Callers |-> I64(DefaultBuffer)]
    /\ expires_call = <<>>
    /\ round_trip = <<>>
    /\ Untouched

NextPosts ==
    \/ \E u \in Users : CreatePost(u)
    \/ \E u \in Users, kind \in {"update_post", "delete_post"}, post_id \in PostIds :
          CheckAccess(u, kind, post_id)
    \/ \E i \in 1..MaxRequests : UpdatePost(i)
    \/ \E i \in 1..MaxRequests : DeletePost(i)

SpecPosts == InitPosts /\ [][NextPosts]_vars

(* --------------- the store's RwLock, one acquisition at a time --------- *)

(* Each await of TokenManager is a step of its own here: a read().await or *)
(* write().await completes when the RwLock admits it, the guard is held    *)
(* until it is dropped, and calls of other tasks run in between.           *)

(* faulty variant of write_section: the guard is dropped before the event  *)
(* is sent                                                                 *)
write_section_send_late == <<"assign", "release", "send">>

(* what set_auth_data (48-55) and the refresh write (116-123) do once       *)
(* write().await has completed: *data = Some(..), sender.send(..), and the *)
(* guard dropped at the end of the block                                   *)
write_section == <<"assign", "send", "release">>

SectionLabels == <<"w1", "w2", "w3">>
section_index(label) == CHOOSE k \in 1..Len(SectionLabels) : SectionLabels[k] = label
after_section(label) ==
    IF section_index(label) = Len(SectionLabels) THEN "done"
    ELSE SectionLabels[section_index(label) + 1]

(* faulty variant of drop_read_guard: the read guard of the re-check lives *)
(* on, as it would if bound to a variable of the block                     *)
drop_read_guard_kept(lock, c, label) ==
    IF label = "rereading" THEN lock ELSE [lock EXCEPT !.readers = @ \ {c}]

(* self.auth_data.read().await.clone(): the guard is a temporary, dropped  *)
(* at the end of the statement                                             *)
drop_read_guard(lock, c, label) == [lock EXCEPT !.readers = @ \ {c}]

(* the pair each task hands to set_auth_data and the pair its refresh_fn   *)
(* returns on success: every write stores a token of its own               *)
SetPair(c) == AuthData(Jwt(FarExp, 10 + c), "S")
RefreshedPair(c) == AuthData(Jwt(FarExp, 20 + c), "N")
TaskResults(c) == {Ok(RefreshedPair(c)), Err("TransportError")}

(* the AuthData a task in its write section stores *)
pending(c) == IF op[c] = "set_auth_data" THEN SetPair(c) ELSE fn_result[c].val[1]

TaskOps == {"ensure_valid_token", "set_auth_data", "get_auth_data"}
first_label(o) ==
    CASE o = "ensure_valid_token" -> "start"
      [] o = "set_auth_data" -> "write"
      [] o = "get_auth_data" -> "read"

(* a task calls ensure_valid_token, set_auth_data or get_auth_data and     *)
(* runs to its first await                                                 *)
Call(c, o) ==
    /\ NotCalling(c)
    /\ op[c] = "none"
    /\ Begin(c, o, first_label(o), NoResult, <<>>)
    /\ UNCHANGED <<auth_data, refresh_lock, token_update_sender, receiver, transport,
                   token_refresh_buffer_seconds, rwlock_vars,
                   post_vars, expires_call, round_trip, channel, now, last_write,
                   refresh_calls>>

(* read().await completes: no writer holds the RwLock *)
ReadAcquire(c) ==
    /\ pc[c] \in {"start", "locked", "read"}
    /\ store_lock.writer = Free
    /\ store_lock' = [store_lock EXCEPT !.readers = @ \cup {c}]
    /\ pc' = [pc EXCEPT ![c] = CASE pc[c] = "start" -> "reading"
                                 [] pc[c] = "locked" -> "rereading"
                                 [] pc[c] = "read" -> "getting"]
    /\ UNCHANGED <<auth_data, refresh_lock, token_update_sender, receiver, transport,
                   token_refresh_buffer_seconds, writes,
                   post_vars, exchange, expires_call, round_trip, channel, now, op, snap,
                   cur, fn_arg, fn_result, ret, trace, seen, last_write, refresh_calls,
                   ops>>

(* the content is cloned, the read guard dropped, and the task runs to its *)
(* next await or to its return                                             *)
ReadRelease(c) ==
    /\ pc[c] \in {"reading", "rereading", "getting"}
    /\ c \in store_lock.readers
    /\ store_lock' = drop_read_guard(store_lock, c, pc[c])
    /\ CASE pc[c] = "reading" ->
              \E overflow_checks \in OverflowChecks :
                 LET o == first_check(auth_data, token_refresh_buffer_seconds[c], now,
                                      overflow_checks)
                 IN  /\ snap' = [snap EXCEPT ![c] = <<auth_data>>]
                     /\ pc' = [pc EXCEPT ![c] = CASE o.next = "lock" -> "wait"
                                                  [] o.next = "panic" -> "panicked"
                                                  [] OTHER -> "done"]
                     /\ ret' = [ret EXCEPT ![c] = o.ret]
                     /\ UNCHANGED <<cur, fn_arg, seen, refresh_lock, refresh_calls>>
         [] pc[c] = "rereading" ->
              \E overflow_checks \in OverflowChecks :
                 LET current == re_read(auth_data, snap[c][1])
                     o == re_check(current, token_refresh_buffer_seconds[c], now,
                                   overflow_checks)
                 IN  /\ cur' = [cur EXCEPT ![c] = <<current>>]
                     /\ CASE o = "refresh" ->
                               /\ pc' = [pc EXCEPT ![c] = "refreshing"]
                               /\ fn_arg' = [fn_arg EXCEPT ![c] =
                                                <<refresh_arg(snap[c][1], current[1])>>]
                               /\ refresh_calls' = refresh_calls + 1
                               /\ UNCHANGED <<ret, refresh_lock>>
                          [] o = "panic" ->
                               /\ pc' = [pc EXCEPT ![c] = "panicked"]
                               /\ refresh_lock' = release(refresh_lock, c)
                               /\ UNCHANGED <<fn_arg, refresh_calls, ret>>
                          [] OTHER ->
                               /\ pc' = [pc EXCEPT ![c] = "done"]
                               /\ ret' = [ret EXCEPT ![c] = OkUnit]
                               /\ refresh_lock' = release(refresh_lock, c)
                               /\ UNCHANGED <<fn_arg, refresh_calls>>
                     /\ UNCHANGED <<snap, seen>>
         [] pc[c] = "getting" ->
              /\ seen' = [seen EXCEPT ![c] = <<get_auth_data(auth_data)>>]
              /\ pc' = [pc EXCEPT ![c] = "done"]
              /\ ret' = [ret EXCEPT ![c] = OkUnit]
              /\ UNCHANGED <<snap, cur, fn_arg, refresh_lock, refresh_calls>>
    /\ UNCHANGED <<auth_data, token_update_sender, receiver, transport,
                   token_refresh_buffer_seconds, writes, post_vars, exchange,
                   expires_call, round_trip, channel, now, op, fn_result, trace,
                   last_write, ops>>

(* refresh_fn returns: the ? returns its error and drops the refresh       *)
(* guard; a pair goes on to write().await                                  *)
RefreshFn(c, r) ==
    /\ pc[c] = "refreshing"
    /\ fn_result' = [fn_result EXCEPT ![c] = r]
    /\ IF refresh_outcome(r).write
       THEN /\ pc' = [pc EXCEPT ![c] = "write"]
            /\ UNCHANGED <<ret, refresh_lock>>
       ELSE /\ pc' = [pc EXCEPT ![c] = after_refresh(r)]
            /\ ret' = [ret EXCEPT ![c] = refresh_outcome(r).ret]
            /\ refresh_lock' = release(refresh_lock, c)
    /\ UNCHANGED <<auth_data, token_update_sender, receiver, transport,
                   token_refresh_buffer_seconds, rwlock_vars, post_vars,
                   exchange, expires_call, round_trip, channel, now, op, snap, cur,
                   fn_arg, trace, seen, last_write, refresh_calls, ops>>

(* write().await completes: nobody holds the RwLock *)
WriteAcquire(c) ==
    /\ pc[c] = "write"
    /\ store_lock = RwFree
    /\ store_lock' = [store_lock EXCEPT !.writer = c]
    /\ pc' = [pc EXCEPT ![c] = SectionLabels[1]]
    /\ UNCHANGED <<auth_data, refresh_lock, token_update_sender, receiver, transport,
                   token_refresh_buffer_seconds, writes,
                   post_vars, exchange, expires_call, round_trip, channel, now, op, snap,
                   cur, fn_arg, fn_result, ret, trace, seen, last_write, refresh_calls,
                   ops>>

(* the next statement of the write section; after the last one the call    *)
(* returns Ok, and ensure_valid_token drops the refresh guard              *)
WriteStep(c) ==
    /\ pc[c] \in {SectionLabels[k] : k \in 1..Len(SectionLabels)}
    /\ LET step == write_section[section_index(pc[c])]
           d == pending(c)
       IN  /\ auth_data' = IF step = "assign" THEN set_value(auth_data, d) ELSE auth_data
           /\ writes' = IF step = "assign" THEN Append(writes, d.access_token) ELSE writes
           /\ last_write' = IF step = "assign"
                            THEN [by |-> IF op[c] = "set_auth_data" THEN op[c] ELSE "refresh",
                                  who |-> c, data |-> <<d>>]
                            ELSE last_write
           /\ channel' = IF step = "send" THEN notify(token_update_sender, receiver, channel, d)
                         ELSE channel
           /\ store_lock' = IF step = "release" THEN [store_lock EXCEPT !.writer = Free]
                            ELSE store_lock
           /\ trace' = [trace EXCEPT ![c] = Append(@, step)]
    /\ pc' = [pc EXCEPT ![c] = after_section(pc[c])]
    /\ IF after_section(pc[c]) = "done"
       THEN /\ ret' = [ret EXCEPT ![c] = OkUnit]
            /\ refresh_lock' = release(refresh_lock, c)
       ELSE UNCHANGED <<ret, refresh_lock>>
    /\ UNCHANGED <<token_update_sender, receiver, transport,
                   token_refresh_buffer_seconds, post_vars,
                   exchange, expires_call, round_trip, now, op, snap, cur, fn_arg, fn_result, seen,
                   refresh_calls, ops>>

(* a manager whose store holds an expiring pair, with or without notifier, *)
(* and tasks that have not called yet                                      *)
InitLocks ==
    /\ auth_data = Some(StalePair)
    /\ refresh_lock = Free
    /\ token_update_sender \in BOOLEAN
    /\ receiver = "open"
    /\ channel = notify(token_update_sender, receiver, <<>>, StalePair)
    /\ now = 0
    /\ pc = [c \in Callers |-> "idle"]
    /\ op = [c \in Callers |-> "none"]
    /\ snap = [c \in Callers |-> <<>>]
    /\ cur = [c \in Callers |-> <<>>]
    /\ fn_arg = [c \in Callers |-> <<>>]
    /\ fn_result = [c \in Callers |-> NoResult]
    /\ ret = [c \in Callers |-> NoResult]
    /\ trace = [c \in Callers |-> <<>>]
    /\ seen = [c \in Callers |-> <<>>]
    /\ last_write = [by |-> "set_auth_data", who |-> 0, data |-> <<StalePair>>]
    /\ refresh_calls = 0
    /\ ops = 0
    /\ transport = "http"
    /\ token_refresh_buffer_seconds = [c \in Callers |-> I64(DefaultBuffer)]
    /\ exchange = [c \in Callers |-> <<>>]
    /\ expires_call = <<>>
    /\ round_trip = <<>>
    /\ store_lock = RwFree
    /\ writes = <<StalePair.access_token>>
    /\ posts = NoPosts
    /\ post_call = <<>>

NextLocks ==
    \/ \E c \in Callers, o \in TaskOps : Call(c, o)
    \/ \E c \in Callers : ReadAcquire(c)
    \/ \E c \in Callers : ReadRelease(c)
    \/ \E c \in Callers : AcquireLock(c)
    \/ \E c \in Callers : \E r \in TaskResults(c) : RefreshFn(c, r)
    \/ \E c \in Callers : WriteAcquire(c)
    \/ \E c \in Callers : WriteStep(c)
    \/ CloseReceiver(NumCallers + 1)

(* every task that can run is polled, a free lock is handed to a task     *)
(* that waits for it, and refresh_fn returns; each task makes one call, so *)
(* a waiter is overtaken finitely often and weak fairness of the           *)
(* acquisitions is all that is asked of the locks                          *)
FairLocks ==
    \A c \in Callers :
       /\ WF_vars(ReadAcquire(c))
       /\ WF_vars(ReadRelease(c))
       /\ WF_vars(AcquireLock(c))
       /\ WF_vars(\E r \in TaskResults(c) : RefreshFn(c, r))
       /\ WF_vars(WriteAcquire(c))
       /\ WF_vars(WriteStep(c))

SpecLocks == InitLocks /\ [][NextLocks]_vars /\ FairLocks

(* ------------------------------ properties ----------------------------- *)

Effects(c) == {trace[c][i] : i \in 1..Len(trace[c])}
Invocations(c) == Cardinality({i \in 1..Len(trace[c]) : trace[c][i] = "refresh_fn"})

(* what the claims mean by decodable and expiring soon, stated on the      *)
(* token itself                                                            *)
Decodable(token) == token.segments = 3 /\ Len(token.payload) = 1
(* expiring soon for the instance caller c calls on, over the integers *)
ExpiringSoonAt(c, token, t) ==
    LET b == token_refresh_buffer_seconds[c]
    IN  CASE b.base = "0" -> token.payload[1].exp <= t + b.off
          [] b.base = "i64::MAX" -> TRUE
          [] b.base = "i64::MIN" -> FALSE

Snapped(c) == snap[c] # <<>>
Returned(c) == pc[c] = "done"
Refreshing == {c \in Callers : pc[c] \in {"refreshing", "write"}}

(* C1: when N >= 2 callers race on an expiring token and refresh_fn        *)
(* answers with a fresh pair, refresh_fn is invoked exactly once, and once *)
(* every call has returned every caller reads the pair that one refresh    *)
(* returned.                                                               *)
C1_RefreshOnce ==
    /\ refresh_calls <= 1
    /\ \A c \in Callers :
          pc[c] = "idle" =>
             /\ refresh_calls = 1
             /\ last_write.by = "refresh"
             /\ seen[c] = <<Some(last_write.data[1])>>
    /\ \A c \in Callers :
          (fn_result[c].ok /\ pc[c] # "write") =>
             last_write = [by |-> "refresh", who |-> c, data |-> fn_result[c].val]

C1_Witness ==
    /\ NumCallers >= 2
    /\ \A c \in Callers : pc[c] = "idle" /\ seen[c] = <<auth_data>>
    /\ refresh_calls = 1
    /\ last_write.by = "refresh"
    /\ auth_data # Some(StalePair)

(* C2: at most one caller is between invoking refresh_fn and the end of    *)
(* the store write that follows it.                                        *)
C2_OneRefreshInFlight == Cardinality(Refreshing) <= 1

C2_Witness ==
    \E c, w \in Callers : pc[c] = "refreshing" /\ pc[w] = "wait" /\ refresh_lock = c

(* the step that takes a caller's first snapshot, judged with the buffer   *)
(* and the clock of that moment                                            *)
C3_Step ==
    \A c \in Callers :
       (/\ ~Snapped(c)
        /\ snap'[c] # <<>>
        /\ snap'[c][1] # None
        /\ Decodable(snap'[c][1][1].access_token)
        /\ ~ExpiringSoonAt(c, snap'[c][1][1].access_token, now))
       => /\ pc'[c] = "done"
          /\ ret'[c] = OkUnit
          /\ trace'[c] = trace[c]
          /\ Effects(c) \cap {"lock_wait", "lock", "refresh_fn", "write", "send"} = {}
          /\ refresh_lock' = refresh_lock
          /\ refresh_lock # c
          /\ refresh_calls' = refresh_calls
          /\ auth_data' = auth_data

(* C3: a first snapshot whose access token is not expiring soon makes the  *)
(* call return success at once: refresh_fn is not invoked and the refresh  *)
(* section is never asked for, whoever holds it.                           *)
C3_FreshReturnsWithoutLock == [][C3_Step]_vars

C3_Witness ==
    \E c, h \in Callers :
       /\ Returned(c) /\ Snapped(c) /\ snap[c][1] # None
       /\ Decodable(snap[c][1][1].access_token)
       /\ ~ExpiringSoonAt(c, snap[c][1][1].access_token, now)
       /\ pc[h] = "refreshing" /\ refresh_lock = h
       /\ cur[h] # snap[c]

(* C4: a first snapshot that finds no AuthData makes the call return       *)
(* success: no refresh_fn, no refresh section, no store write.             *)
C4_UnsetReturnsOk ==
    \A c \in Callers :
       (Snapped(c) /\ snap[c][1] = None)
       => /\ Returned(c)
          /\ ret[c] = OkUnit
          /\ trace[c] = <<>>
          /\ fn_arg[c] = <<>>
          /\ refresh_lock # c

C4_Witness ==
    \E c \in Callers : Returned(c) /\ Snapped(c) /\ snap[c][1] = None /\ auth_data = None

(* a call whose refresh_fn returned an error returned that error, wrote    *)
(* nothing and sent nothing                                                *)
C5_ErrorReturned ==
    \A c \in Callers :
       (Returned(c) /\ fn_result[c] # NoResult /\ ~fn_result[c].ok)
       => /\ ret[c] = Err(fn_result[c].err)
          /\ Effects(c) \cap {"write", "send"} = {}
          /\ refresh_lock # c

(* the step on which refresh_fn's error is returned *)
C5_ErrorStep ==
    \A c \in Callers :
       (pc[c] = "refreshing" /\ pc'[c] = "done" /\ ~fn_result'[c].ok)
       => /\ auth_data' = auth_data
          /\ channel' = channel
          /\ last_write' = last_write
          /\ refresh_lock' = Free

(* C5: a refresh_fn error is what the call returns, in every state, and    *)
(* the step that returns it leaves the store and the channel as they were  *)
C5_RefreshErrorPropagated == []C5_ErrorReturned /\ [][C5_ErrorStep]_vars

C5_Witness ==
    \E c \in Callers :
       /\ Returned(c) /\ fn_result[c] # NoResult /\ ~fn_result[c].ok
       /\ token_update_sender
       /\ cur[c] = <<auth_data>>
       /\ ret[c].err = "Unauthorized"

(* refresh_fn got the refresh token of the pair re-read under the refresh  *)
(* section, was invoked once, and the pair it returned is what the call    *)
(* stored                                                                  *)
C6_Refreshed ==
    \A c \in Callers :
       /\ fn_arg[c] # <<>> =>
             /\ cur[c] # <<>> /\ cur[c][1] # None
             /\ fn_arg[c] = <<cur[c][1][1].refresh_token>>
             /\ Invocations(c) = 1
       /\ (Returned(c) /\ fn_result[c].ok /\ last_write.who = c /\ last_write.by = "refresh") =>
             auth_data = Some(fn_result[c].val[1])

(* the re-check of a caller that finds the pair of its snapshot, an        *)
(* expiring one, invokes refresh_fn, as long as now + buffer is an i64     *)
C6_Step ==
    \A c \in Callers :
       (/\ pc[c] = "locked"
        /\ cur'[c] = snap[c]
        /\ token_refresh_buffer_seconds[c].base = "0") =>
          /\ pc'[c] = "refreshing"
          /\ fn_arg'[c] = <<snap[c][1][1].refresh_token>>
          /\ refresh_calls' = refresh_calls + 1

(* C6: refresh_fn gets the refresh token of the pair re-read under the     *)
(* refresh section and is invoked once; a caller that is alone with an     *)
(* expiring pair does invoke it, with that pair's refresh token, and on    *)
(* success the store holds exactly the pair refresh_fn returned.           *)
C6_RefreshWithCurrentToken == []C6_Refreshed /\ [][C6_Step]_vars

C6_Witness ==
    \E c \in Callers :
       /\ Returned(c) /\ op[c] = "ensure_valid_token"
       /\ Snapped(c) /\ cur[c] = snap[c]
       /\ fn_arg[c] = <<"R2">>
       /\ fn_result[c] = Ok(AuthData(TokFresh, "R3"))
       /\ auth_data = Some(AuthData(TokFresh, "R3"))
       /\ \A o \in Callers \ {c} : op[o] = "none"

(* C7: a first snapshot whose access token cannot be decoded makes the     *)
(* call return the decode error: no refresh_fn, no refresh section, no     *)
(* store write.                                                            *)
C7_UndecodableReturnsError ==
    \A c \in Callers :
       (Snapped(c) /\ snap[c][1] # None /\ ~Decodable(snap[c][1][1].access_token))
       => /\ Returned(c)
          /\ ret[c] = Err("InternalError")
          /\ Effects(c) \cap {"lock_wait", "lock", "refresh_fn", "write", "send"} = {}
          /\ fn_arg[c] = <<>>
          /\ refresh_lock # c

C7_Witness ==
    \E c \in Callers :
       /\ Returned(c) /\ Snapped(c) /\ snap[c][1] # None
       /\ ~Decodable(snap[c][1][1].access_token)
       /\ auth_data = snap[c][1]

(* C8, as stated: whenever AuthData is stored, its access token is         *)
(* decodable.                                                              *)
C8_StoredTokenDecodable ==
    auth_data # None => Decodable(auth_data[1].access_token)

(* C8, amended: the stored access token is the one last handed to the      *)
(* store, unchecked, so it is decodable exactly when that token was; an    *)
(* ensure_valid_token that snapshots an undecodable one returns the error. *)
C8_StoredTokenAsSupplied ==
    auth_data # None =>
       /\ last_write.data # <<>>
       /\ Decodable(auth_data[1].access_token) = Decodable(last_write.data[1].access_token)
       /\ auth_data[1].access_token.sig = last_write.data[1].access_token.sig

C8_Witness ==
    /\ auth_data # None
    /\ ~Decodable(auth_data[1].access_token)
    /\ \E c \in Callers : Returned(c) /\ snap[c] = <<auth_data>> /\ ret[c] = Err("InternalError")

(* the pairs that are supplied as a unit *)
Units == Issued \cup {set_token_data(t) : t \in AccessTokens}

(* C9: the store is unset or holds exactly the pair last supplied as a     *)
(* unit, and no read returns fields of two different pairs.                *)
C9_NoTornPair ==
    /\ IF last_write = NoWrite THEN auth_data = None ELSE auth_data = last_write.data
    /\ auth_data # None => auth_data[1] \in Units
    /\ \A c \in Callers : (seen[c] # <<>> /\ seen[c][1] # None) => seen[c][1][1] \in Units

C9_Witness ==
    \E c \in Callers :
       /\ seen[c] # <<>> /\ seen[c][1] # None /\ auth_data # None
       /\ last_write.by = "refresh"
       /\ seen[c][1][1].access_token # auth_data[1].access_token
       /\ seen[c][1][1].refresh_token # auth_data[1].refresh_token

(* C10: after set_auth_data(d), with no later write, get_auth_data returns *)
(* d, get_access_token d's access token and get_refresh_token d's refresh  *)
(* token, whatever the store held before.                                  *)
C10_SetThenGet ==
    last_write.by = "set_auth_data" =>
       /\ get_auth_data(auth_data) = Some(last_write.data[1])
       /\ get_access_token(auth_data) = Some(last_write.data[1].access_token)
       /\ get_refresh_token(auth_data) = Some(last_write.data[1].refresh_token)

C10_Witness ==
    /\ last_write.by = "set_auth_data"
    /\ \E c \in Callers :
          /\ seen[c] # <<>> /\ seen[c][1] # None
          /\ seen[c][1][1].access_token # auth_data[1].access_token
          /\ seen[c][1][1].refresh_token # auth_data[1].refresh_token

(* the last expires_soon call answered as the comparison of exp with the   *)
(* clock it read plus the buffer demands, the boundary included            *)
C11_Result ==
    (expires_call.soon # <<>> /\ expires_call.buffer.base = "0") =>
       LET exp == expires_call.claims.exp
           limit == expires_call.at[1] + expires_call.buffer.off
       IN  /\ exp > limit => expires_call.soon = <<Ok(FALSE)>>
           /\ exp = limit => expires_call.soon = <<Ok(TRUE)>>
           /\ exp < limit => expires_call.soon = <<Ok(TRUE)>>

(* a call reads the clock of its own moment, and within the range an       *)
(* answer of true is never followed by an answer of false                  *)
C11_Step ==
    expires_call' # expires_call =>
       /\ expires_call'.at = <<now>>
       /\ (expires_call.buffer.base = "0" /\ expires_call.soon = <<Ok(TRUE)>>)
             => expires_call'.soon = <<Ok(TRUE)>>

(* C11: for exp, now and buffer in a range where now + buffer stays inside *)
(* i64, expires_soon(buffer) at time now is true exactly when              *)
(* exp <= now + buffer, the boundary exp = now + buffer included; each     *)
(* call reads the clock anew, and for fixed claims and buffer the answer   *)
(* never goes from true back to false as time advances.                    *)
C11_ExpiresSoonBoundary == []C11_Result /\ [][C11_Step]_vars

C11_Witness ==
    /\ expires_call.soon = <<Ok(TRUE)>>
    /\ expires_call.at = <<1>>
    /\ expires_call.buffer.base = "0"
    /\ expires_call.claims.exp = 1 + expires_call.buffer.off
    /\ expires_call.buffer.off > 0

(* beyond that range: with the buffer i64::MAX the sum leaves i64 as soon  *)
(* as the clock is positive, and the call panics or, wrapped, answers      *)
(* false although exp <= now + buffer                                      *)
ExpiresSoonOverflows ==
    /\ expires_call.soon \in {<<Ok(FALSE)>>, <<Err("attempt to add with overflow")>>}
    /\ expires_call.buffer = NearMax(0)
    /\ expires_call.at = <<1>>

(* the step that ends a caller's re-check under the refresh section *)
C12_Step ==
    \A c \in Callers :
       (pc[c] = "locked" /\ pc'[c] # "locked") =>
          /\ cur'[c] = <<auth_data>>
          /\ (last_write.by = "refresh" /\ last_write.who # c) =>
                cur'[c] = <<Some(last_write.data[1])>>
          /\ (/\ auth_data # None
              /\ Decodable(auth_data[1].access_token)
              /\ ~ExpiringSoonAt(c, auth_data[1].access_token, now)) =>
                /\ pc'[c] = "done"
                /\ ret'[c] = OkUnit
                /\ refresh_calls' = refresh_calls
                /\ fn_arg'[c] = <<>>
                /\ auth_data' = auth_data
                /\ refresh_lock' = Free

(* a successful refresh has written the store before it left the section *)
C12_WriteBeforeRelease ==
    \A c \in Callers :
       (Returned(c) /\ fn_result[c].ok) =>
          \E i, j \in 1..Len(trace[c]) :
             i < j /\ trace[c][i] = "write" /\ trace[c][j] = "unlock"

(* C12: a caller that acquires the refresh section after another caller's  *)
(* successful refresh re-reads the pair that refresh wrote (the write      *)
(* precedes the release), and if its access token is not expiring soon it  *)
(* returns success without invoking refresh_fn.                            *)
C12_ReCheckSeesRefresh == []C12_WriteBeforeRelease /\ [][C12_Step]_vars

C12_Witness ==
    \E c \in Callers :
       /\ Returned(c) /\ ret[c] = OkUnit
       /\ "lock" \in Effects(c) /\ "refresh_fn" \notin Effects(c)
       /\ last_write.by = "refresh" /\ last_write.who # c
       /\ cur[c] = <<Some(last_write.data[1])>>
       /\ snap[c] # cur[c]

Holders == {c \in Callers : pc[c] \in {"locked", "refreshing", "write"}}

(* C13: once a call that acquired the refresh section has returned, by the *)
(* re-check, a successful refresh or a refresh error, the section is free  *)
(* of it: only a caller between acquisition and return holds it, and a     *)
(* waiting caller can acquire it when nobody is there.                     *)
C13_SectionReleased ==
    /\ \A c \in Callers : c \notin Holders => refresh_lock # c
    /\ refresh_lock # Free => refresh_lock \in Holders
    /\ \A c \in Callers :
          ((Returned(c) \/ pc[c] = "panicked") /\ "lock" \in Effects(c)) =>
             trace[c][Len(trace[c])] = "unlock"
    /\ \A w \in Callers : (pc[w] = "wait" /\ Holders = {}) => ENABLED AcquireLock(w)

C13_Witness ==
    \E c, w \in Callers :
       /\ Returned(c) /\ "lock" \in Effects(c)
       /\ fn_result[c] # NoResult /\ ~fn_result[c].ok
       /\ pc[w] = "locked" /\ refresh_lock = w

(* C18: one ensure_valid_token call invokes refresh_fn at most once,       *)
(* whatever refresh_fn returns; after a failed refresh the call has        *)
(* returned the error and made no second attempt.                          *)
C18_NoRetry ==
    \A c \in Callers :
       /\ Invocations(c) <= 1
       /\ (fn_result[c] # NoResult /\ ~fn_result[c].ok) =>
             /\ Returned(c)
             /\ Invocations(c) = 1
             /\ ret[c] = Err(fn_result[c].err)

C18_Witness ==
    \E c \in Callers :
       /\ Returned(c) /\ Invocations(c) = 1
       /\ fn_result[c] = Err("TransportError")
       /\ ret[c] = Err("TransportError")
Cancelled == {c \in Callers : pc[c] = "cancelled"}

(* a cancelled waiter has not entered the section, invoked refresh_fn or   *)
(* written the store; the section is held by a live call or by nobody      *)
C14_CancelledDidNothing ==
    /\ \A c \in Cancelled :
          /\ Effects(c) \cap {"lock", "refresh_fn", "write", "send", "unlock"} = {}
          /\ fn_arg[c] = <<>> /\ fn_result[c] = NoResult
          /\ refresh_lock # c
          /\ last_write.who = c => last_write.by # "refresh"
    /\ refresh_lock # Free => refresh_lock \in Holders

(* a cancellation changes nothing but the cancelled waiter, which stays    *)
(* cancelled                                                               *)
C14_Step ==
    \A c \in Callers :
       /\ pc[c] = "cancelled" => pc'[c] = "cancelled" /\ trace'[c] = trace[c]
       /\ (pc[c] = "wait" /\ pc'[c] = "cancelled") =>
             /\ \A o \in Callers \ {c} : pc'[o] = pc[o] /\ trace'[o] = trace[o]
             /\ auth_data' = auth_data /\ refresh_lock' = refresh_lock
             /\ channel' = channel /\ refresh_calls' = refresh_calls

(* a call that waited for the section and returned did acquire it, left   *)
(* it free, and wrote the store if its refresh_fn succeeded                *)
C14_ReturnedAfterSection ==
    \A c \in Callers :
       (Returned(c) /\ "lock_wait" \in Effects(c)) =>
          /\ "lock" \in Effects(c) /\ "unlock" \in Effects(c)
          /\ fn_result[c].ok => "write" \in Effects(c) /\ last_write.by = "refresh"

(* C14: when a waiter on the refresh section is cancelled, the caller in   *)
(* the section still completes its refresh_fn call and store write, every  *)
(* other waiter still eventually acquires the section, and the cancelled   *)
(* waiter never invokes refresh_fn and never writes the store.             *)
C14_CancelledWaiterHarmless ==
    /\ [](C14_CancelledDidNothing /\ C14_ReturnedAfterSection)
    /\ [][C14_Step]_vars
    /\ \A c \in Callers :
          (pc[c] \in {"wait", "locked", "refreshing", "write"}) ~> (Returned(c) \/ pc[c] = "cancelled")

C14_Witness ==
    \E x, h, w \in Callers :
       /\ pc[x] = "cancelled" /\ snap[x] = <<Some(StalePair)>>
       /\ Returned(h) /\ fn_result[h].ok
       /\ last_write = [by |-> "refresh", who |-> h, data |-> fn_result[h].val]
       /\ "lock_wait" \in Effects(w) /\ pc[w] = "locked" /\ refresh_lock = w
InEnsure(c) == pc[c] \in {"start", "wait", "locked", "refreshing", "write", "done"}

(* C15: create_post, get_post, update_post, delete_post and list_posts, on *)
(* either transport, run ensure_valid_token before anything is sent; when  *)
(* it returns an error the operation returns that error and sends no       *)
(* resource request.                                                       *)
C15_EnsureBeforeRequest ==
    \A c \in Callers :
       op[c] \in ResourceOps =>
          /\ InEnsure(c) => exchange[c] = <<>>
          /\ exchange[c] # <<>> =>
                /\ pc[c] = "finished"
                /\ Snapped(c)
                /\ ret[c] # NoResult
                /\ ~ret[c].ok => exchange[c] = <<NotSent(ret[c])>>
                /\ exchange[c][1].sent => ret[c] = OkUnit

C15_Witness ==
    \E c, d \in Callers :
       /\ transport = "grpc"
       /\ op[c] = "delete_post" /\ fn_result[c] = Err("Unauthorized")
       /\ exchange[c] = <<NotSent(Err("Unauthorized"))>>
       /\ op[d] = "list_posts" /\ fn_result[d] = Err("TransportError")
       /\ exchange[d] = <<NotSent(Err("TransportError"))>>

(* the step on which a resource request is sent *)
C16_Step ==
    \A c \in Callers :
       (exchange[c] = <<>> /\ exchange'[c] # <<>> /\ exchange'[c][1].sent) =>
          LET credential == exchange'[c][1].credential
          IN  /\ ret[c] = OkUnit
              /\ credential # None =>
                    /\ auth_data # None
                    /\ credential = Some(bearer(auth_data[1].access_token))
              /\ (auth_data # None /\ header_value(auth_data[1].access_token).ok) =>
                    credential # None
              /\ (fn_result[c].ok /\ last_write.who = c /\ last_write.by = "refresh") =>
                    /\ credential = Some(bearer(fn_result[c].val[1].access_token))
                    /\ cur[c][1][1].access_token # fn_result[c].val[1].access_token =>
                          credential # Some(bearer(cur[c][1][1].access_token))

(* C16: the bearer credential of a resource request is the access token    *)
(* read from the store after ensure_valid_token returned success; when     *)
(* that call refreshed and no other write intervened, it is the refreshed  *)
(* access token, not the one from before the refresh.                      *)
C16_CredentialAfterEnsure == [][C16_Step]_vars

C16_Witness ==
    \E c \in Callers :
       /\ op[c] \in ResourceOps /\ exchange[c] # <<>> /\ exchange[c][1].sent
       /\ fn_result[c].ok /\ last_write.who = c /\ last_write.by = "refresh"
       /\ cur[c] = <<Some(StalePair)>>
       /\ exchange[c][1].credential = Some(bearer(fn_result[c].val[1].access_token))
       /\ exchange[c][1].credential # Some(bearer(TokStale))

(* the step that is a login or a register *)
C17_Step ==
    \A c \in Callers :
       (pc[c] = "idle" /\ pc'[c] # "idle" /\ op'[c] \in {"login", "register"}) =>
          /\ pc'[c] = "done"
          /\ snap'[c] = <<>> /\ cur'[c] = <<>> /\ fn_arg'[c] = <<>>
          /\ refresh_lock' = refresh_lock
          /\ refresh_calls' = refresh_calls
          /\ op'[c] = "register" =>
                auth_data' = auth_data /\ last_write' = last_write /\ channel' = channel
          /\ (op'[c] = "login" /\ ret'[c].ok) =>
                /\ last_write'.by = "login" /\ last_write'.who = c
                /\ auth_data' = Some(last_write'.data[1])
          /\ (op'[c] = "login" /\ ~ret'[c].ok) =>
                auth_data' = auth_data /\ last_write' = last_write /\ channel' = channel

(* a login or register that has returned never was in ensure_valid_token *)
C17_NoCoordinator ==
    \A c \in Callers :
       op[c] \in {"login", "register"} =>
          /\ pc[c] = "done"
          /\ Effects(c) \cap {"lock_wait", "lock", "refresh_fn", "unlock"} = {}
          /\ refresh_lock # c
          /\ snap[c] = <<>> /\ fn_arg[c] = <<>> /\ fn_result[c] = NoResult

(* C17: login and register never call ensure_valid_token, never take the   *)
(* refresh section and never invoke refresh_fn; a successful login         *)
(* replaces the store with exactly the pair of the login response, a       *)
(* failed login leaves the store as it was, register never changes it.     *)
C17_LoginBypassesCoordinator == []C17_NoCoordinator /\ [][C17_Step]_vars

C17_Witness ==
    \E l, h \in Callers :
       /\ op[l] = "login" /\ ret[l] = OkUnit
       /\ last_write = [by |-> "login", who |-> l, data |-> <<AuthData(TokFresh, "R3")>>]
       /\ auth_data = Some(AuthData(TokFresh, "R3"))
       /\ pc[h] = "refreshing" /\ refresh_lock = h /\ cur[h] = <<Some(StalePair)>>
(* the server refused the refresh because of the token presented *)
Rejected ==
    \/ transport = "http" /\ round_trip.reply.status = 401
                          /\ refresh_url(round_trip.base) = RefreshRoute
    \/ transport = "grpc" /\ round_trip.reply.rpc = "OK"
                          /\ round_trip.reply.code = <<"Unauthorized">>

(* the kinds of error a refresh returns when the network fails *)
NetworkErrors == {refresh_auth_token_internal(tr, "down", NoReply).err : tr \in Transports}

(* C19, as stated: when the server rejects a refresh because the refresh   *)
(* token is invalid or expired, ensure_valid_token returns an error of a   *)
(* different kind than for a network or protocol failure, on both          *)
(* transports.                                                             *)
C19_RejectionDistinguishable ==
    (pc[Refresher] = "done" /\ round_trip.network = "up" /\ Rejected) =>
       /\ ~ret[Refresher].ok
       /\ ret[Refresher].err \notin NetworkErrors

SignatureValid(token) == token.key = Secret /\ token.claims # <<>>
NotExpired(token, t) == token.claims[1].exp + Leeway >= t
AtHandler == transport = "http" /\ refresh_url(round_trip.base) = RefreshRoute
Answered == round_trip.step \in {"replied", "returned"} /\ round_trip.network = "up"

(* C20: the server's refresh operation returns a new access and refresh    *)
(* token pair exactly when the presented token passes signature and expiry *)
(* verification; otherwise it answers 401 and issues no tokens.            *)
C20_RefreshIffVerified ==
    (Answered /\ AtHandler) =>
       LET p == round_trip.presented
           reply == round_trip.reply
       IN  IF SignatureValid(p) /\ NotExpired(p, now)
           THEN /\ reply.status = 200
                /\ reply.body # <<>>
                /\ reply.body[1].access_token.key = Secret
                /\ reply.body[1].refresh_token.key = Secret
                /\ reply.body[1].access_token.claims[1].exp = now + jwt_expiration_seconds
                /\ reply.body[1].refresh_token.claims[1].exp = now + RefreshExpiry
                /\ reply.body[1].access_token.claims[1].sub = p.claims[1].sub
                /\ reply.body[1].access_token # p
                /\ reply.body[1].refresh_token # p
           ELSE /\ reply.status = 401
                /\ reply.body = <<>>

C20_Witness ==
    /\ Answered /\ AtHandler
    /\ round_trip.presented.key = Secret
    /\ round_trip.presented.claims[1].exp = now - Leeway
    /\ round_trip.reply.status = 200
    /\ now > Leeway
(* every post's title and content are those its author submitted *)
C21_WrittenByAuthor ==
    \A id \in PostIds :
       posts[id] # <<>> =>
          /\ posts[id][1].uuid = id
          /\ posts[id][1].title.by = posts[id][1].author_id
          /\ posts[id][1].content.by = posts[id][1].author_id

(* a call that got past check_access_to_post was made by the author of the *)
(* post it read; one that returned Forbidden was not                       *)
C21_CheckedIsAuthor ==
    \A i \in 1..Len(post_call) :
       /\ post_call[i].step = "checked" =>
             post_call[i].existing[1].author_id = post_call[i].user_id
       /\ post_call[i].result = Err("Forbidden") => post_call[i].existing = <<>>

(* a step of update_post or delete_post: the table changes only at the     *)
(* post asked for and only for its author; a call by another user returns  *)
(* Forbidden and leaves the table as it was                                *)
C21_Step ==
    /\ \A id \in PostIds :
          (posts[id] # <<>> /\ posts'[id] # posts[id]) =>
             \E i \in 1..Len(post_call) :
                /\ post_call[i].step = "checked" /\ post_call'[i].step = "returned"
                /\ post_call[i].post_id = id
                /\ post_call[i].user_id = posts[id][1].author_id
                /\ posts'[id] # <<>> => posts'[id][1].author_id = posts[id][1].author_id
    /\ (Len(post_call') > Len(post_call)
        /\ post_call'[Len(post_call')].kind \in {"update_post", "delete_post"}) =>
          LET call == post_call'[Len(post_call')]
          IN  /\ posts' = posts
              /\ (posts[call.post_id] # <<>>
                  /\ posts[call.post_id][1].author_id # call.user_id) =>
                    call.result = Err("Forbidden") /\ call.step = "returned"

(* C21: update_post and delete_post change or remove a post only when the  *)
(* requesting user is its author; for any other user they return Forbidden *)
(* and the post's title, content and existence are unchanged; so after any *)
(* sequence of create, update and delete requests every post's content was *)
(* last written by its author.                                             *)
C21_OnlyAuthorChangesPost ==
    [](C21_WrittenByAuthor /\ C21_CheckedIsAuthor) /\ [][C21_Step]_vars

C21_Witness ==
    \E i, j \in 1..Len(post_call) :
       /\ post_call[i].kind = "update_post" /\ post_call[i].result = Err("Forbidden")
       /\ post_call[j].kind = "update_post" /\ post_call[j].result.ok
       /\ post_call[j].post_id = post_call[i].post_id
       /\ post_call[j].user_id # post_call[i].user_id
       /\ posts[post_call[j].post_id] # <<>>
       /\ posts[post_call[j].post_id][1].content =
             PostText("content", post_call[j].user_id, "updated")
(* C22, as stated: ensure_valid_token never invokes refresh_fn on behalf   *)
(* of a stored access token that fails to decode, also when the failure    *)
(* occurs at the re-check under the refresh section; the call returns the  *)
(* decode error.                                                           *)
C22_UndecodableNeverRefreshed ==
    \A c \in Callers :
       (cur[c] # <<>> /\ cur[c][1] # None /\ ~Decodable(cur[c][1][1].access_token)) =>
          /\ Returned(c)
          /\ ret[c] = Err("InternalError")
          /\ fn_arg[c] = <<>>
          /\ "refresh_fn" \notin Effects(c)
InSection(c) == pc[c] \in {SectionLabels[k] : k \in 1..Len(SectionLabels)}

(* with a notifier, the events are the tokens written, in the order        *)
(* written, the one being written under the write guard at most missing;   *)
(* without one nothing is sent                                             *)
C23_EventsAreWrites ==
    IF token_update_sender
    THEN /\ store_lock.writer = Free => channel = writes
         /\ store_lock.writer # Free =>
               \/ channel = writes
               \/ channel = SubSeq(writes, 1, Len(writes) - 1)
    ELSE channel = <<>>

(* an event is sent by the task that holds the write guard, for the token  *)
(* it has just stored; the store changes only under the write guard; a     *)
(* failed refresh, a skipped refresh and a read leave store and channel    *)
C23_Step ==
    /\ channel' # channel =>
          \E c \in Callers :
             /\ InSection(c)
             /\ store_lock.writer = c /\ store_lock'.writer = c
             /\ auth_data = Some(pending(c))
             /\ channel' = Append(channel, pending(c).access_token)
             /\ Len(channel') = Len(writes)
             /\ op[c] = "ensure_valid_token" => fn_result[c].ok
    /\ writes' # writes =>
          \E c \in Callers :
             /\ store_lock.writer = c
             /\ auth_data' = Some(pending(c))
             /\ writes' = Append(writes, pending(c).access_token)
    /\ \A c \in Callers :
          (pc[c] \in {"reading", "rereading", "getting", "refreshing"} /\ pc'[c] = "done") =>
             channel' = channel /\ writes' = writes /\ auth_data' = auth_data

(* C23, as stated: with a notifier configured every replacement of the     *)
(* stored AuthData, by set_auth_data or by a successful refresh, enqueues  *)
(* exactly one event carrying the newly stored access token while the      *)
(* store's write lock is held, so the events in the channel are the access *)
(* tokens written, in order; a failed refresh, a skipped refresh and a     *)
(* plain read enqueue nothing.                                             *)
C23_EventPerWrite == []C23_EventsAreWrites /\ [][C23_Step]_vars

(* the events are the tokens written before the receiver was closed: all   *)
(* of them while it is open, the one being written under the write guard   *)
(* at most missing, and a prefix of them afterwards; without a notifier    *)
(* nothing is sent                                                         *)
C23_EventsAreWritesWhileOpen ==
    IF token_update_sender
    THEN /\ Len(channel) <= Len(writes)
         /\ channel = SubSeq(writes, 1, Len(channel))
         /\ receiver = "open" => Len(channel) >= Len(writes) - 1
         /\ (receiver = "open" /\ store_lock.writer = Free) => channel = writes
    ELSE channel = <<>>

(* the send of a write section enqueues the token just stored when the     *)
(* receiver is open and nothing when it is closed; closing the receiver    *)
(* changes neither store nor channel                                       *)
C23_SendStep ==
    /\ \A c \in Callers :
          (/\ InSection(c)
           /\ trace'[c] = Append(trace[c], "send")) =>
             /\ store_lock.writer = c /\ store_lock'.writer = c
             /\ auth_data = Some(pending(c))
             /\ channel' = IF token_update_sender /\ receiver = "open"
                           THEN Append(channel, pending(c).access_token)
                           ELSE channel
    /\ channel' # channel =>
          /\ receiver = "open"
          /\ \E c \in Callers :
                /\ InSection(c)
                /\ trace'[c] = Append(trace[c], "send")
                /\ Len(channel') = Len(writes)
                /\ op[c] = "ensure_valid_token" => fn_result[c].ok
    /\ writes' # writes =>
          \E c \in Callers :
             /\ store_lock.writer = c
             /\ auth_data' = Some(pending(c))
             /\ writes' = Append(writes, pending(c).access_token)
    /\ receiver' # receiver =>
          channel' = channel /\ writes' = writes /\ auth_data' = auth_data
    /\ \A c \in Callers :
          (pc[c] \in {"reading", "rereading", "getting", "refreshing"} /\ pc'[c] = "done") =>
             channel' = channel /\ writes' = writes /\ auth_data' = auth_data

(* C23, amended: with a notifier configured every replacement of the       *)
(* stored AuthData calls send once, while the store's write lock is held.  *)
(* While the receiver is open the send enqueues one event carrying the     *)
(* newly stored access token, so the events are the access tokens written, *)
(* in order; once the receiver is closed or dropped the send fails, its    *)
(* error is discarded, the store is replaced all the same and nothing is   *)
(* enqueued, so the events are the tokens written before the close.  A     *)
(* failed refresh, a skipped refresh and a plain read enqueue nothing.     *)
C23_EventPerWriteWhileOpen == []C23_EventsAreWritesWhileOpen /\ [][C23_SendStep]_vars

(* a refresh is announced, the receiver is closed, and a set_auth_data     *)
(* after it replaces the store without an event; a failed refresh sent     *)
(* nothing                                                                 *)
C23_Witness ==
    \E s, e, f \in Callers :
       /\ token_update_sender
       /\ receiver = "closed"
       /\ op[s] = "set_auth_data" /\ Returned(s)
       /\ op[e] = "ensure_valid_token" /\ Returned(e) /\ fn_result[e].ok
       /\ op[f] = "ensure_valid_token" /\ Returned(f) /\ fn_result[f] = Err("TransportError")
       /\ channel = <<TokStale, RefreshedPair(e).access_token>>
       /\ writes = <<TokStale, RefreshedPair(e).access_token, SetPair(s).access_token>>
       /\ auth_data = Some(SetPair(s))
       /\ "send" \in Effects(s)
(* where a call stands while it awaits the refresh section, the store's    *)
(* RwLock or refresh_fn, and where it runs with a store guard in hand      *)
AwaitsSection == {"wait"}
AwaitsStore == {"start", "locked", "read", "write"}
AwaitsRefreshFn == {"refreshing"}
HoldsStore == {"reading", "rereading", "getting", "w1", "w2", "w3"}

(* a step of some call that has begun *)
Proceed ==
    \E c \in Callers :
       \/ ReadAcquire(c) \/ ReadRelease(c) \/ AcquireLock(c)
       \/ WriteAcquire(c) \/ WriteStep(c)
       \/ \E r \in TaskResults(c) : RefreshFn(c, r)

(* a store guard is held only between its acquisition and its drop, never  *)
(* while waiting for the refresh section or for refresh_fn                 *)
C24_GuardsHeldBriefly ==
    /\ \A c \in Callers :
          /\ c \in store_lock.readers => pc[c] \in {"reading", "rereading", "getting"}
          /\ store_lock.writer = c => InSection(c)
          /\ pc[c] \in AwaitsSection \cup AwaitsRefreshFn =>
                c \notin store_lock.readers /\ store_lock.writer # c
    /\ store_lock.writer # Free => store_lock.readers = {}

(* a call that has begun and not returned is at one of the three waits or  *)
(* can take its next step; while any call is unfinished some call can step *)
C24_WaitsOnlyAtLocks ==
    /\ \A c \in Callers :
          pc[c] \notin {"idle", "done"} =>
             \/ pc[c] \in AwaitsSection \cup AwaitsStore \cup AwaitsRefreshFn
             \/ pc[c] \in HoldsStore /\ ENABLED (ReadRelease(c) \/ WriteStep(c))
    /\ (\E c \in Callers : pc[c] \notin {"idle", "done"}) => ENABLED Proceed

(* C24: if every refresh_fn call terminates and lock acquisition is fair,  *)
(* every ensure_valid_token call on a shared TokenManager eventually       *)
(* returns under any interleaving with ensure_valid_token, set_auth_data   *)
(* and read calls; no task waits for the refresh section while holding the *)
(* store lock, and a call waits only for the refresh section, for the      *)
(* store lock or for refresh_fn.                                           *)
C24_EveryCallReturns ==
    /\ [](C24_GuardsHeldBriefly /\ C24_WaitsOnlyAtLocks)
    /\ \A c \in Callers : (op[c] = "ensure_valid_token") ~> Returned(c)

C24_Witness ==
    \E e, g, w \in Callers :
       /\ op[e] = "ensure_valid_token" /\ pc[e] = "write" /\ refresh_lock = e
       /\ op[g] = "get_auth_data" /\ g \in store_lock.readers
       /\ op[w] = "ensure_valid_token" /\ pc[w] = "wait"
AuthenticatedOps == {"create_post", "update_post", "delete_post"}

(* C25: when no AuthData is stored, create_post, update_post and           *)
(* delete_post do not fail on the client: ensure_valid_token returns       *)
(* success without entering the refresh section, and the request is sent   *)
(* without a bearer credential.                                            *)
C25_UnauthenticatedIsSent ==
    \A c \in Callers :
       op[c] \in AuthenticatedOps =>
          /\ (Snapped(c) /\ snap[c][1] = None) =>
                /\ pc[c] \in {"done", "finished"}
                /\ ret[c] = OkUnit
                /\ trace[c] = <<>>
                /\ pc[c] = "finished" => exchange[c] # <<>> /\ exchange[c][1].sent
          /\ (exchange[c] # <<>> /\ seen[c] = <<None>>) =>
                /\ snap[c] = <<None>>
                /\ exchange[c] = <<SentWith(None)>>

C25_Witness ==
    \E c, d \in Callers :
       /\ auth_data = None
       /\ op[c] = "create_post" /\ op[d] = "delete_post"
       /\ exchange[c] = <<SentWith(None)>> /\ exchange[d] = <<SentWith(None)>>
       /\ ret[c] = OkUnit /\ ret[d] = OkUnit
(* the client is built with the base url under which its login, register   *)
(* and post requests reach the server's routes                             *)
ServedBase == login_url(round_trip.base) = LoginRoute

(* C26, as stated: the POST that the HTTP client's refresh_fn sends, its    *)
(* path relative to the base url, is routed by the server to its refresh   *)
(* handler, so that with a valid refresh token an HTTP refresh succeeds    *)
(* and yields the server's new pair.                                       *)
C26_RefreshRequestRouted ==
    (/\ transport = "http"
     /\ ServedBase
     /\ pc[Refresher] = "done" /\ round_trip.network = "up"
     /\ SignatureValid(round_trip.presented)
     /\ NotExpired(round_trip.presented, now)) =>
       /\ refresh_url(round_trip.base) = RefreshRoute
       /\ round_trip.reply.status = 200
       /\ round_trip.result.ok
       /\ round_trip.result.val[1] =
             AuthData(round_trip.reply.body[1].access_token,
                      round_trip.reply.body[1].refresh_token)
       /\ ret[Refresher] = OkUnit
       /\ auth_data = Some(round_trip.result.val[1])
(* C27: set_auth_data, and so login and setup_token's set_token, never     *)
(* takes or waits for the refresh section: it completes while a refresh is *)
(* in flight; when that refresh succeeds its result overwrites the store,  *)
(* whatever set_auth_data stored after the refresh began.                  *)
C27_SetDuringRefreshIsOverwritten ==
    /\ \A s \in Callers :
          /\ (NotCalling(s) /\ ops < MaxOps) =>
                \A d \in Issued : ENABLED SetAuthData(s, d)
          /\ op[s] \in {"set_auth_data", "login"} =>
                /\ pc[s] \in {"done", "idle"}
                /\ Effects(s) \cap {"lock_wait", "lock", "unlock", "refresh_fn"} = {}
                /\ refresh_lock # s
    /\ \A c \in Callers :
          (/\ Returned(c) /\ fn_result[c].ok
           /\ last_write.who = c /\ last_write.by = "refresh") =>
             /\ auth_data = Some(fn_result[c].val[1])
             /\ (token_update_sender /\ receiver = "open") =>
                   channel[Len(channel)] = fn_result[c].val[1].access_token

C27_Witness ==
    \E h, s \in Callers :
       /\ op[h] = "setup_token" /\ Returned(h) /\ fn_result[h].ok
       /\ cur[h] = <<Some(set_token_data(TokSoon))>>
       /\ op[s] = "set_auth_data" /\ pc[s] = "idle"
       /\ seen[s] = <<Some(AuthData(TokFresh, "R3"))>>
       /\ fn_result[h].val[1].access_token # TokFresh
       /\ auth_data = Some(fn_result[h].val[1])
       /\ last_write.who = h /\ last_write.by = "refresh"
(* a caller that waited for the section returns an error only from its own *)
(* refresh_fn; refresh_fn runs for one caller at a time, once per caller   *)
C28_OwnRefresh ==
    /\ Cardinality(Refreshing) <= 1
    /\ refresh_calls = Cardinality({c \in Callers : fn_arg[c] # <<>>})
    /\ refresh_calls <= NumCallers
    /\ \A c \in Callers :
          /\ Invocations(c) <= 1
          /\ (Returned(c) /\ "lock_wait" \in Effects(c) /\ ~ret[c].ok) =>
                fn_result[c] = ret[c] /\ Invocations(c) = 1
          /\ pc[c] = "refreshing" => refresh_lock = c

(* the re-check of a caller that finds the store still holding a token     *)
(* that expires soon or does not decode: it invokes refresh_fn with the    *)
(* refresh token in the store at that moment                               *)
C28_Step ==
    \A c \in Callers :
       (/\ pc[c] = "locked" /\ pc'[c] # "locked"
        /\ auth_data # None
        /\ \/ ~Decodable(auth_data[1].access_token)
           \/ ExpiringSoonAt(c, auth_data[1].access_token, now)) =>
          /\ pc'[c] = "refreshing"
          /\ fn_arg'[c] = <<auth_data[1].refresh_token>>
          /\ refresh_calls' = refresh_calls + 1
          /\ refresh_lock' = c

(* C28: errors and unsuccessful refreshes are not shared between callers:  *)
(* when the first caller's refresh_fn returns an error, or a pair whose    *)
(* access token still expires soon or does not decode, each later caller,  *)
(* on acquiring the refresh section, invokes its own refresh_fn with the   *)
(* refresh token then in the store, one after another and never            *)
(* concurrently, so up to N refresh calls are made.                        *)
C28_EachCallerRefreshes == []C28_OwnRefresh /\ [][C28_Step]_vars

C28_Witness ==
    /\ refresh_calls = NumCallers
    /\ \A c \in Callers : Returned(c)
    /\ \E a, b, c \in Callers :
          /\ fn_arg[a] = <<"R1">> /\ fn_result[a] = Err("TransportError")
          /\ fn_arg[b] = <<"R1">> /\ fn_result[b] = Ok(AuthData(TokOpaque, "R4"))
          /\ fn_arg[c] = <<"R4">> /\ fn_result[c] = Err("Unauthorized")
          /\ ret[c] = Err("Unauthorized") /\ ret[a] = Err("TransportError")
(* C29: ensure_valid_token does not validate the pair a successful         *)
(* refresh_fn returns: the pair is stored and the call returns success     *)
(* also when its access token does not decode or already expires soon, so  *)
(* success does not imply that the stored access token is fresh.           *)
C29_RefreshedPairUnchecked ==
    \A c \in Callers :
       (Returned(c) /\ fn_result[c].ok) =>
          /\ ret[c] = OkUnit
          /\ "write" \in Effects(c)
          /\ Invocations(c) = 1
          /\ (last_write.who = c /\ last_write.by = "refresh") =>
                /\ last_write.data = fn_result[c].val
                /\ auth_data = Some(fn_result[c].val[1])

C29_Witness ==
    \E c, d \in Callers :
       /\ Returned(c) /\ ret[c] = OkUnit
       /\ fn_result[c] = Ok(AuthData(TokSoon, "R2")) /\ ExpiringSoonAt(c, TokSoon, now)
       /\ Returned(d) /\ ret[d] = OkUnit
       /\ fn_result[d] = Ok(AuthData(TokOpaque, "R4"))
       /\ fn_arg[d] = <<"R2">>
       /\ auth_data = Some(AuthData(TokOpaque, "R4"))
       /\ ~Decodable(auth_data[1].access_token)
(* C30: setup_token(token) first replaces the stored pair with the token   *)
(* and an empty refresh token, whatever was stored, and only then calls    *)
(* ensure_valid_token; when that returns an error (the token does not      *)
(* decode, or it expires soon and the refresh, attempted with the empty    *)
(* refresh token, fails) setup_token returns the error and the store keeps *)
(* the new token: it is not rolled back.                                   *)
C30_SetupTokenNotRolledBack ==
    /\ last_write.by = "setup_token" =>
          /\ last_write.data[1].refresh_token = ""
          /\ auth_data = Some(set_token_data(last_write.data[1].access_token))
    /\ \A c \in Callers :
          op[c] = "setup_token" =>
             /\ pc[c] # "idle" => trace[c][1] = "set_token"
             /\ (Snapped(c) /\ last_write.who = c /\ last_write.by = "setup_token") =>
                   snap[c] = <<auth_data>>
             /\ (Snapped(c) /\ snap[c][1] # None
                 /\ ~Decodable(snap[c][1][1].access_token)) =>
                   Returned(c) /\ ret[c] = Err("InternalError")
             /\ (fn_arg[c] # <<>> /\ cur[c] = <<Some(set_token_data(cur[c][1][1].access_token))>>) =>
                   fn_arg[c] = <<"">>
             /\ (Returned(c) /\ ~ret[c].ok /\ fn_result[c] # NoResult) =>
                   ret[c] = fn_result[c]

C30_Witness ==
    \E p, c \in Callers :
       /\ op[p] = "set_auth_data" /\ seen[p] = <<Some(AuthData(TokFresh, "R3"))>>
       /\ op[c] = "setup_token" /\ Returned(c)
       /\ snap[c] = <<Some(set_token_data(TokSoon))>>
       /\ fn_arg[c] = <<"">> /\ fn_result[c] = Err("Unauthorized")
       /\ ret[c] = Err("Unauthorized")
       /\ last_write.who = c /\ last_write.by = "setup_token"
       /\ auth_data = Some(AuthData(TokSoon, ""))

====
